---- MODULE Spec2Model ----
(***************************************************************************)
(* A model of the XLayer extensions of reth:                               *)
(*   - InnerTxInspector, in its two implementations                        *)
(*       crates/ethereum/evm/src/xlayer_innertx_inspector.rs  ("evm")      *)
(*       crates/revm/src/xlayer_innertx_inspector.rs          ("revm")     *)
(*     driven in lockstep by the same sequence of interpreter hooks;       *)
(*   - CrossBoundaryFilterManager (crates/rpc/rpc-eth-types/src/legacy.rs) *)
(*     and the routing predicates of                                       *)
(*     crates/rpc/rpc-eth-api/src/helpers/legacy_router.rs.                *)
(*                                                                         *)
(* Conventions.  Option<T>: None is <<>>, Some(x) is <<x>>.  Vec<T> is a   *)
(* sequence; a position in a Vec is 0-based as in the source, so the       *)
(* element at position p of v is v[p + 1].  HashMap<u64, u64> is a         *)
(* function with a finite domain.                                          *)
(***************************************************************************)
EXTENDS Integers, Sequences, FiniteSets, Bags, TLC

VARIABLES
    evm,        \* InnerTxInspector of crates/ethereum/evm
    revm,       \* InnerTxInspector of crates/revm
    g_open,     \* the interpreter's stack of open frames (the host's view)
    g_info,     \* per recorded event: what the host knows about it
    g_failed,   \* positions of the records in the subtree of a failed frame
    g_events,   \* number of call_enter / create_enter / selfdestruct hooks
    g_run,      \* how the execution began and which transaction it is in
    mgr,        \* CrossBoundaryFilterManager
    ret,        \* the last filter / routing operation and what it returned
    thr,        \* per thread using the manager: where it is in its call
    g_reg,      \* what the callers of register / remove passed and were given
    cell,       \* INSTANCE, the OnceCell<ApolloClient>
    instances,  \* every ApolloClient that new_instance created
    tasks,      \* every listener task that was spawned
    remote,     \* the document the configuration service has per namespace
    callers,    \* per thread: where it is in get_instance / stop_listening
    g_apollo    \* stop_listening calls so far; the task whose last poll logged a parse error

inspVars == <<evm, revm, g_open, g_info, g_failed, g_events, g_run>>
storeVars == <<thr, g_reg>>
filterVars == <<mgr, ret, thr, g_reg>>
apolloVars == <<cell, instances, tasks, remote, callers, g_apollo>>
vars == <<evm, revm, g_open, g_info, g_failed, g_events, g_run, mgr, ret, thr, g_reg,
          cell, instances, tasks, remote, callers, g_apollo>>

(***************************************************************************)
(* Bounds of the model.                                                    *)
(***************************************************************************)
MaxRecs == 4        \* records observed by one inspector
MaxLogs == 2        \* logs on each side of a merge
MaxBlock == 3       \* small block heights 0..MaxBlock
MaxIds == 3         \* register calls on one filter manager

None == <<>>
Some(x) == <<x>>

(***************************************************************************)
(* u64::MAX.  TLC's integers are 32 bits wide, so the top of the           *)
(* u64 range is modelled by the largest value it represents; the code      *)
(* under study only compares block heights and subtracts 1 from one.       *)
(***************************************************************************)
U64_MAX == 2147483647

\* ------------------------------------------------------------------------
\* Formatting helpers (value.to_string(), format!("0x{:x}", value))
\* ------------------------------------------------------------------------
HexDigits == <<"0", "1", "2", "3", "4", "5", "6", "7",
               "8", "9", "a", "b", "c", "d", "e", "f">>

RECURSIVE lower_hex(_)
lower_hex(n) ==
    IF n < 16 THEN HexDigits[n + 1]
    ELSE lower_hex(n \div 16) \o HexDigits[(n % 16) + 1]

to_string(n) == ToString(n)

\* ------------------------------------------------------------------------
\* AsSchemeStr
\* ------------------------------------------------------------------------
CallScheme_as_str(scheme) ==
    CASE scheme = "Call" -> "call"
      [] scheme = "CallCode" -> "callcode"
      [] scheme = "DelegateCall" -> "delegatecall"
      [] scheme = "StaticCall" -> "staticcall"

CreateScheme_as_str(scheme) ==
    CASE scheme = "Create" -> "create"
      [] scheme = "Create2" -> "create2"
      [] scheme = "Custom" -> "custom"

\* ------------------------------------------------------------------------
\* Inputs the host hands to the hooks
\* ------------------------------------------------------------------------
CallInputsSet ==
    { [scheme |-> "Call", caller |-> "a1", target_address |-> "a2",
       bytecode_address |-> "a3", input |-> <<1>>, gas_limit |-> 5,
       transfer_value |-> Some(10)] }

CreateInputsSet ==
    { [scheme |-> "Create", caller |-> "a1", init_code |-> <<7>>,
       gas_limit |-> 4, value |-> 255] }

\* revm's InstructionResult: is_error() holds for the halting errors, not for
\* a successful return and not for Revert.
InstructionResults == {"Return", "Revert", "OutOfGas"}
InstructionResult_is_error(r) == r \in {"OutOfGas"}

CallOutcomes(inputs) ==
    { [result |-> [result |-> "Return", gas_remaining |-> inputs.gas_limit - 1,
                   output |-> <<9>>]],
      [result |-> [result |-> "Revert", gas_remaining |-> 1, output |-> <<9>>]],
      [result |-> [result |-> "OutOfGas", gas_remaining |-> 0, output |-> <<>>]] }

CreateOutcomes(inputs) ==
    { [result |-> [result |-> "Return", gas_remaining |-> inputs.gas_limit - 1,
                   output |-> <<>>], address |-> Some("a9")],
      [result |-> [result |-> "Revert", gas_remaining |-> 1, output |-> <<9>>],
       address |-> None],
      [result |-> [result |-> "OutOfGas", gas_remaining |-> 0, output |-> <<>>],
       address |-> None] }

\* ------------------------------------------------------------------------
\* InnerTxInspector
\* ------------------------------------------------------------------------
\* InnerTxInspector::new() / Default
InnerTxInspector_new ==
    [ inner_tx_meta |-> [index |-> 0, last_depth |-> 0,
                         index_map |-> <<>>, inner_txs |-> <<>>],
      current_depth |-> 0,
      call_stack |-> <<>> ]

get_inner_txs(self) == self.inner_tx_meta.inner_txs

map_insert(m, k, v) == [x \in (DOMAIN m) \cup {k} |-> IF x = k THEN v ELSE m[x]]
map_get_or(m, k, dflt) == IF k \in DOMAIN m THEN m[k] ELSE dflt

\* "Update index tracking": the three branches of before_op.  The faulty
\* variant continues at the running counter instead of the counter kept per
\* depth.
update_index_running(meta, d) ==
    IF d = meta.last_depth
    THEN [meta EXCEPT !.index = meta.index + 1,
                      !.index_map = map_insert(meta.index_map, d, meta.index + 1)]
    ELSE IF d < meta.last_depth
    THEN [meta EXCEPT !.index = meta.index + 1,
                      !.index_map = map_insert(meta.index_map, d, meta.index + 1),
                      !.last_depth = d]
    ELSE [meta EXCEPT !.index = 0,
                      !.index_map = map_insert(meta.index_map, d, 0),
                      !.last_depth = d]

update_index(meta, d) ==
    IF d = meta.last_depth
    THEN [meta EXCEPT !.index = meta.index + 1,
                      !.index_map = map_insert(meta.index_map, d, meta.index + 1)]
    ELSE IF d < meta.last_depth
    THEN LET i == map_get_or(meta.index_map, d, 0) + 1
         IN [meta EXCEPT !.index = i,
                         !.index_map = map_insert(meta.index_map, d, i),
                         !.last_depth = d]
    ELSE [meta EXCEPT !.index = 0,
                      !.index_map = map_insert(meta.index_map, d, 0),
                      !.last_depth = d]

\* The keys of a map in ascending order
RECURSIVE sorted_keys(_)
sorted_keys(S) ==
    IF S = {} THEN <<>>
    ELSE LET m == CHOOSE x \in S : \A y \in S : x <= y
         IN <<m>> \o sorted_keys(S \ {m})

\* "Build trace address and name": for i in 1..=last_depth, the entries of
\* index_map that exist, in order of depth.  The loop visits every i up to
\* last_depth; what it collects are the keys of index_map in that range.
build_trace_address(meta) ==
    LET keys == sorted_keys({i \in DOMAIN meta.index_map :
                                1 <= i /\ i <= meta.last_depth})
    IN [j \in 1..Len(keys) |-> meta.index_map[keys[j]]]

RECURSIVE name_suffix(_)
name_suffix(trace) ==
    IF trace = <<>> THEN ""
    ELSE "_" \o to_string(Head(trace)) \o name_suffix(Tail(trace))

build_name(call_type, trace) == call_type \o name_suffix(trace)

\* The position handed back by before_op: the two files differ here.
new_index_evm(inner_txs) == Len(inner_txs)
new_index_revm(inner_txs) == IF Len(inner_txs) = 0 THEN 0 ELSE Len(inner_txs) - 1
new_index_of(impl, inner_txs) ==
    IF impl = "evm" THEN new_index_evm(inner_txs) ELSE new_index_revm(inner_txs)

\* before_op: returns the inspector after the call, the record and its position
before_op(self, impl, call_type, from, to, code_address, input, gas, value) ==
    LET meta == update_index(self.inner_tx_meta, self.current_depth)
        trace == build_trace_address(meta)
        inner_tx ==
            [ depth |-> self.current_depth,
              internal_index |-> meta.index,
              call_type |-> call_type,
              name |-> build_name(call_type, trace),
              trace_address |-> trace,
              code_address |-> code_address,
              from |-> from,
              to |-> to,
              input |-> input,
              output |-> <<>>,
              is_error |-> FALSE,
              gas |-> gas,
              gas_used |-> 0,
              value |-> value,
              value_wei |-> to_string(value),
              call_value_wei |-> "0x" \o lower_hex(value),
              error |-> None ]
        new_index == new_index_of(impl, meta.inner_txs)
    IN [ self |-> [self EXCEPT !.inner_tx_meta =
                       [meta EXCEPT !.inner_txs = Append(meta.inner_txs, inner_tx)]],
         inner_tx |-> inner_tx,
         new_index |-> new_index ]

\* "Mark all inner txs from this index as errors": iter_mut().skip(new_index).
\* The faulty variants skip one record more, leaving the frame's own record
\* out, or flip the flag instead of setting it.
mark_errors_skip_own(inner_txs, new_index) ==
    [i \in 1..Len(inner_txs) |->
        IF i > new_index + 1 THEN [inner_txs[i] EXCEPT !.is_error = TRUE]
        ELSE inner_txs[i]]

mark_errors_toggle(inner_txs, new_index) ==
    [i \in 1..Len(inner_txs) |->
        IF i > new_index THEN [inner_txs[i] EXCEPT !.is_error = ~inner_txs[i].is_error]
        ELSE inner_txs[i]]

mark_errors(inner_txs, new_index) ==
    [i \in 1..Len(inner_txs) |->
        IF i > new_index THEN [inner_txs[i] EXCEPT !.is_error = TRUE]
        ELSE inner_txs[i]]

\* after_op: the record it finalises is the caller's local copy
after_op(self, op_type, gas_used, new_index, inner_tx, addr, err, retdata) ==
    LET tx1 == [inner_tx EXCEPT !.gas_used = gas_used, !.output = retdata]
        self1 == IF err # None
                 THEN [self EXCEPT !.inner_tx_meta.inner_txs =
                           mark_errors(self.inner_tx_meta.inner_txs, new_index)]
                 ELSE self
        tx2 == IF err # None THEN [tx1 EXCEPT !.error = err] ELSE tx1
        tx3 == IF op_type \in {"create", "create2"} /\ addr # None
               THEN [tx2 EXCEPT !.to = addr] ELSE tx2
    IN [self |-> self1, inner_tx |-> tx3]

\* Inspector::initialize_interp
initialize_interp(self) == [self EXCEPT !.current_depth = 1]

\* self.current_depth += 1 in u64.  The counter is at u64::MAX only after a
\* decrement wrapped, that is in a build without overflow checks, where the
\* increment wraps too.
depth_add_one(d) == IF d = U64_MAX THEN 0 ELSE d + 1

\* Inspector::call (the trait hook and the private call it delegates to)
inspector_call(self, impl, inputs) ==
    LET self1 == [self EXCEPT !.current_depth = depth_add_one(self.current_depth)]
        value == IF inputs.transfer_value = None THEN 0 ELSE inputs.transfer_value[1]
        r == before_op(self1, impl, CallScheme_as_str(inputs.scheme), inputs.caller,
                       Some(inputs.target_address), Some(inputs.bytecode_address),
                       inputs.input, inputs.gas_limit, value)
    IN [r.self EXCEPT !.call_stack = Append(r.self.call_stack, <<r.inner_tx, r.new_index>>)]

\* format!("{:?}", outcome.result): the Debug rendering of the result
debug_fmt(result) == "InterpreterResult{" \o result.result \o "}"

\* Inspector::call_end
inspector_call_end(self, inputs, outcome) ==
    LET self1 ==
            IF self.call_stack # <<>>
            THEN LET top == self.call_stack[Len(self.call_stack)]
                     popped == [self EXCEPT !.call_stack =
                                   SubSeq(self.call_stack, 1, Len(self.call_stack) - 1)]
                     gas_used == inputs.gas_limit - outcome.result.gas_remaining
                     error == IF InstructionResult_is_error(outcome.result.result)
                              THEN Some(debug_fmt(outcome.result)) ELSE None
                 IN after_op(popped, CallScheme_as_str(inputs.scheme), gas_used,
                             top[2], top[1], None, error, outcome.result.output).self
            ELSE self
    IN [self1 EXCEPT !.current_depth = self1.current_depth - 1]

\* Inspector::create.  The faulty variant does not push onto call_stack.
inspector_create_no_push(self, impl, inputs) ==
    LET self1 == [self EXCEPT !.current_depth = depth_add_one(self.current_depth)]
    IN before_op(self1, impl, CreateScheme_as_str(inputs.scheme), inputs.caller,
                 None, None, inputs.init_code, inputs.gas_limit, inputs.value).self

inspector_create(self, impl, inputs) ==
    LET self1 == [self EXCEPT !.current_depth = depth_add_one(self.current_depth)]
        r == before_op(self1, impl, CreateScheme_as_str(inputs.scheme), inputs.caller,
                       None, None, inputs.init_code, inputs.gas_limit, inputs.value)
    IN [r.self EXCEPT !.call_stack = Append(r.self.call_stack, <<r.inner_tx, r.new_index>>)]

\* Inspector::create_end
inspector_create_end(self, inputs, outcome) ==
    LET self1 ==
            IF self.call_stack # <<>>
            THEN LET top == self.call_stack[Len(self.call_stack)]
                     popped == [self EXCEPT !.call_stack =
                                   SubSeq(self.call_stack, 1, Len(self.call_stack) - 1)]
                     gas_used == inputs.gas_limit - outcome.result.gas_remaining
                     error == IF InstructionResult_is_error(outcome.result.result)
                              THEN Some(debug_fmt(outcome.result)) ELSE None
                 IN after_op(popped, CreateScheme_as_str(inputs.scheme), gas_used,
                             top[2], top[1], outcome.address, error,
                             outcome.result.output).self
            ELSE self
    IN [self1 EXCEPT !.current_depth = self1.current_depth - 1]

\* The exit hooks when current_depth may be 0: self.current_depth -= 1 in
\* u64 then panics in a build with overflow checks and wraps to u64::MAX in a
\* build without them.  The results the builds can produce:
call_end_results(self, inputs, outcome) ==
    IF self.current_depth >= 1
    THEN {[panic |-> FALSE, self |-> inspector_call_end(self, inputs, outcome)]}
    ELSE {[panic |-> TRUE],
          [panic |-> FALSE,
           self |-> [inspector_call_end(self, inputs, outcome)
                        EXCEPT !.current_depth = U64_MAX]]}

create_end_results(self, inputs, outcome) ==
    IF self.current_depth >= 1
    THEN {[panic |-> FALSE, self |-> inspector_create_end(self, inputs, outcome)]}
    ELSE {[panic |-> TRUE],
          [panic |-> FALSE,
           self |-> [inspector_create_end(self, inputs, outcome)
                        EXCEPT !.current_depth = U64_MAX]]}

\* Inspector::selfdestruct / handle_selfdestruct.  The faulty variants record
\* nothing, or record the two parties the other way round.
handle_selfdestruct_silent(self, impl, contract, target, value) == self

handle_selfdestruct_swapped(self, impl, contract, target, value) ==
    LET r == before_op(self, impl, "suicide", target, Some(contract), None,
                       <<>>, 0, value)
    IN after_op(r.self, "suicide", 0, r.new_index, r.inner_tx, None, None, <<>>).self

handle_selfdestruct(self, impl, contract, target, value) ==
    LET r == before_op(self, impl, "suicide", contract, Some(target), None,
                       <<>>, 0, value)
    IN after_op(r.self, "suicide", 0, r.new_index, r.inner_tx, None, None, <<>>).self

\* ------------------------------------------------------------------------
\* Filters, block selectors and logs (alloy_rpc_types_eth)
\* ------------------------------------------------------------------------
\* BlockNumberOrTag
Number(n) == <<"Number", n>>
Earliest == <<"Earliest">>
Latest == <<"Latest">>
Pending == <<"Pending">>
Finalized == <<"Finalized">>
Safe == <<"Safe">>

\* Block heights of the model: the small ones, the ones around the cutoff of
\* the repository's tests, and the top of the u64 range.
Heights == (0..MaxBlock) \cup {999000, 999999, 1000000, 1001000, U64_MAX - 1, U64_MAX}

BlockNumberOrTags ==
    {Number(n) : n \in Heights} \cup {Earliest, Latest, Pending, Finalized, Safe}

OptionalTags == {None} \cup {Some(t) : t \in BlockNumberOrTags}

AddressesAndTopics ==
    { [address |-> {}, topics |-> <<>>],
      [address |-> {"a1", "a2"}, topics |-> <<{"t1"}, {"t2", "t3"}>>] }

\* Filter: a block range or a block hash, with address and topic sets
Filters ==
    { [block_option |-> [type |-> "Range", from_block |-> f, to_block |-> t],
       address |-> at.address, topics |-> at.topics] :
        f \in OptionalTags, t \in OptionalTags, at \in AddressesAndTopics }
    \cup
    { [block_option |-> [type |-> "AtBlockHash", hash |-> "h1"],
       address |-> at.address, topics |-> at.topics] :
        at \in AddressesAndTopics }

\* FilterBlockOption::get_from_block / get_to_block: None for a block hash
get_from_block(block_option) ==
    IF block_option.type = "Range" THEN block_option.from_block ELSE None

get_to_block(block_option) ==
    IF block_option.type = "Range" THEN block_option.to_block ELSE None

\* Filter::from_block / Filter::to_block (builder): the result is a range
Filter_to_block(filter, block) ==
    [filter EXCEPT !.block_option =
        [type |-> "Range", from_block |-> get_from_block(filter.block_option),
         to_block |-> Some(block)]]

Filter_from_block(filter, block) ==
    [filter EXCEPT !.block_option =
        [type |-> "Range", from_block |-> Some(block),
         to_block |-> get_to_block(filter.block_option)]]

\* Logs: the three optional components of the canonical order, and a payload
MkLog(b, t, l, d) ==
    [block_number |-> b, transaction_index |-> t, log_index |-> l, data |-> d]

LogSet ==
    { MkLog(Some(2), Some(0), Some(0), "p"),
      MkLog(Some(1), Some(1), Some(0), "p"),
      MkLog(Some(1), Some(0), Some(1), "p"),
      MkLog(Some(1), Some(0), Some(0), "p"),
      MkLog(Some(1), Some(0), Some(0), "q"),
      MkLog(None, Some(0), Some(0), "p"),
      MkLog(Some(1), None, Some(3), "p") }

RECURSIVE SeqsUpTo(_, _)
SeqsUpTo(S, n) ==
    IF n = 0 THEN {<<>>}
    ELSE LET shorter == SeqsUpTo(S, n - 1)
         IN shorter \cup {Append(q, x) : q \in shorter, x \in S}

\* ------------------------------------------------------------------------
\* CrossBoundaryFilterManager
\* ------------------------------------------------------------------------
\* CrossBoundaryFilterManager::new
CrossBoundaryFilterManager_new(cutoff_block) ==
    [cutoff_block |-> cutoff_block, filters |-> <<>>, next_id |-> 1]

\* parse_block_range: one selector
parse_selector(sel) ==
    IF sel # None /\ sel[1][1] = "Number" THEN sel[1][2]
    ELSE IF sel = Some(Earliest) THEN 0
    ELSE U64_MAX

parse_block_range(self, filter) ==
    <<parse_selector(get_from_block(filter.block_option)),
      parse_selector(get_to_block(filter.block_option))>>

\* classify_filter.  The faulty variant has the legacy bound off by one.
classify_filter_inclusive(self, filter) ==
    LET r == parse_block_range(self, filter)
    IN IF r[2] <= self.cutoff_block THEN "PureLegacy"
       ELSE IF r[1] >= self.cutoff_block THEN "PureLocal"
       ELSE "Hybrid"

classify_filter(self, filter) ==
    LET r == parse_block_range(self, filter)
    IN IF r[2] < self.cutoff_block THEN "PureLegacy"
       ELSE IF r[1] >= self.cutoff_block THEN "PureLocal"
       ELSE "Hybrid"

\* self.cutoff_block - 1 in u64: with cutoff_block = 0 a build with overflow
\* checks panics and a build without them wraps to u64::MAX.
cutoff_minus_one(self) ==
    IF self.cutoff_block >= 1 THEN {[panic |-> FALSE, value |-> self.cutoff_block - 1]}
    ELSE {[panic |-> TRUE], [panic |-> FALSE, value |-> U64_MAX]}

\* split_filter: the set of results the builds can produce.  The faulty
\* variants leave the legacy part with the original to_block, or end it at
\* the cutoff itself.
split_filter_legacy_unbounded(self, filter) ==
    { [panic |-> FALSE,
       legacy_filter |-> filter,
       local_filter |-> Filter_from_block(filter, Number(self.cutoff_block))] }

split_filter_overlapping(self, filter) ==
    { [panic |-> FALSE,
       legacy_filter |-> Filter_to_block(filter, Number(self.cutoff_block)),
       local_filter |-> Filter_from_block(filter, Number(self.cutoff_block))] }

split_filter(self, filter) ==
    { IF m.panic THEN [panic |-> TRUE]
      ELSE [panic |-> FALSE,
            legacy_filter |-> Filter_to_block(filter, Number(m.value)),
            local_filter |-> Filter_from_block(filter, Number(self.cutoff_block))] :
        m \in cutoff_minus_one(self) }

\* Ord for u64 and Option<u64> (None is less than Some), Ordering::then
cmp_u64(a, b) == IF a < b THEN "Less" ELSE IF a = b THEN "Equal" ELSE "Greater"

cmp_option(a, b) ==
    IF a = None THEN (IF b = None THEN "Equal" ELSE "Less")
    ELSE IF b = None THEN "Greater"
    ELSE cmp_u64(a[1], b[1])

then(first, second) == IF first = "Equal" THEN second ELSE first

\* The comparator of merge_logs.  The faulty variant orders by block number
\* only.
merge_logs_cmp_block_only(a, b) == cmp_option(a.block_number, b.block_number)

merge_logs_cmp(a, b) ==
    then(then(cmp_option(a.block_number, b.block_number),
              cmp_option(a.transaction_index, b.transaction_index)),
         cmp_option(a.log_index, b.log_index))

\* Vec::sort_by: a stable sort.  The faulty variant places an element before
\* the elements it compares equal to.
insert_before_equal(sorted, x) ==
    LET k == Cardinality({i \in 1..Len(sorted) : merge_logs_cmp(sorted[i], x) = "Less"})
    IN SubSeq(sorted, 1, k) \o <<x>> \o SubSeq(sorted, k + 1, Len(sorted))

insert_stable(sorted, x) ==
    LET k == Cardinality({i \in 1..Len(sorted) : merge_logs_cmp(sorted[i], x) # "Greater"})
    IN SubSeq(sorted, 1, k) \o <<x>> \o SubSeq(sorted, k + 1, Len(sorted))

RECURSIVE sort_by(_)
sort_by(v) ==
    IF v = <<>> THEN <<>>
    ELSE insert_stable(sort_by(SubSeq(v, 1, Len(v) - 1)), v[Len(v)])

\* merge_logs
merge_logs(self, legacy_logs, local_logs) == sort_by(legacy_logs \o local_logs)

\* generate_id: one critical section on next_id.  FilterId::from(id) is the
\* number itself.  The faulty variants derive the id from the number of stored
\* filters, step the counter by two, or do not step it at all.
generate_id_from_len(self) ==
    [self |-> [self EXCEPT !.next_id = Cardinality(DOMAIN self.filters) + 2],
     id |-> Cardinality(DOMAIN self.filters) + 1]

generate_id_by_two(self) ==
    [self |-> [self EXCEPT !.next_id = self.next_id + 2], id |-> self.next_id]

generate_id_no_increment(self) == [self |-> self, id |-> self.next_id]

generate_id(self) ==
    [self |-> [self EXCEPT !.next_id = self.next_id + 1], id |-> self.next_id]

\* FilterMetadata as register_filter builds it from its arguments
FilterMetadata(original_filter, filter_type, legacy_id, local_id) ==
    [original_filter |-> original_filter, filter_type |-> filter_type,
     legacy_id |-> legacy_id, local_id |-> local_id]

\* register_filter, second critical section: self.filters.write().insert(..)
filters_insert(self, id, metadata) ==
    [self EXCEPT !.filters = map_insert(self.filters, id, metadata)]

\* get_filter: self.filters.read().get(id).cloned()
get_filter(self, id) ==
    IF id \in DOMAIN self.filters THEN Some(self.filters[id]) ELSE None

\* remove_filter: self.filters.write().remove(id).  The faulty variant returns
\* the entry and leaves it in the map.
remove_filter_keep(self, id) == [self |-> self, result |-> get_filter(self, id)]

remove_filter(self, id) ==
    [self |-> [self EXCEPT !.filters =
                  [x \in (DOMAIN self.filters) \ {id} |-> self.filters[x]]],
     result |-> get_filter(self, id)]

\* ------------------------------------------------------------------------
\* Routing predicates (legacy_router.rs)
\* ------------------------------------------------------------------------
\* LegacyRpcClient: the routing predicates read its cutoff_block only
LegacyRpcClient_from_config(cutoff_block) == [cutoff_block |-> cutoff_block]

\* An endpoint URL: its scheme, if it has one, and what follows
Endpoints ==
    { [scheme |-> Some("http"), rest |-> "legacy:8545"],
      [scheme |-> Some("https"), rest |-> "legacy.example"],
      [scheme |-> Some("invalid"), rest |-> "url"],
      [scheme |-> None, rest |-> "invalid-url"],
      [scheme |-> None, rest |-> ""] }

\* LegacyRpcConfig::new
LegacyRpcConfig_new(cutoff_block, endpoint, timeout) ==
    [cutoff_block |-> cutoff_block, endpoint |-> endpoint, timeout |-> timeout]

LegacyRpcConfigs ==
    { LegacyRpcConfig_new(c, e, 30) : c \in Heights, e \in Endpoints }

\* HttpClientBuilder::default().request_timeout(..).build(endpoint): an
\* endpoint that is not an http or https URL with a host is refused
HttpClientBuilder_build(endpoint, timeout) ==
    IF endpoint.scheme \in {Some("http"), Some("https")} /\ endpoint.rest # ""
    THEN [ok |-> TRUE, value |-> [endpoint |-> endpoint, request_timeout |-> timeout]]
    ELSE [ok |-> FALSE, error |-> "invalid url"]

\* LegacyRpcClient::from_config: the error of build is passed on by `?`
from_config(config) ==
    LET client == HttpClientBuilder_build(config.endpoint, config.timeout)
    IN IF client.ok
       THEN [ok |-> TRUE, value |-> LegacyRpcClient_from_config(config.cutoff_block)]
       ELSE [ok |-> FALSE, error |-> client.error]

\* LegacyRpcComponents::empty / is_enabled
LegacyRpcComponents_empty == [client |-> None, filter_manager |-> None]
is_enabled(components) == components.client # None

\* init_legacy_rpc_components.  The faulty variant builds the filter manager
\* with cutoff 0.
init_legacy_rpc_components_zero_cutoff(config) ==
    IF config = None THEN LegacyRpcComponents_empty
    ELSE LET r == from_config(config[1])
         IN IF r.ok
            THEN [client |-> Some(r.value),
                  filter_manager |-> Some(CrossBoundaryFilterManager_new(0))]
            ELSE LegacyRpcComponents_empty

init_legacy_rpc_components(config) ==
    IF config = None THEN LegacyRpcComponents_empty
    ELSE LET r == from_config(config[1])
         IN IF r.ok
            THEN [client |-> Some(r.value),
                  filter_manager |->
                      Some(CrossBoundaryFilterManager_new(config[1].cutoff_block))]
            ELSE LegacyRpcComponents_empty

\* should_route_to_legacy.  The faulty variant also routes the cutoff block.
should_route_to_legacy_inclusive(legacy_client, number) ==
    IF legacy_client # None /\ number[1] = "Number"
    THEN number[2] <= legacy_client[1].cutoff_block
    ELSE FALSE

should_route_to_legacy(legacy_client, number) ==
    IF legacy_client # None /\ number[1] = "Number"
    THEN number[2] < legacy_client[1].cutoff_block
    ELSE FALSE

\* BlockId: a block number or tag, or a block hash
BlockIds ==
    {None} \cup {Some(<<"Number", n>>) : n \in BlockNumberOrTags}
           \cup {Some(<<"Hash", h>>) : h \in {"h1", "h2"}}

\* should_route_block_id_to_legacy.  The faulty variant routes every block
\* hash to legacy when a client is configured.
should_route_block_id_to_legacy_hash(legacy_client, block_id) ==
    IF legacy_client # None /\ block_id # None
    THEN IF block_id[1][1] = "Number"
         THEN should_route_to_legacy(legacy_client, block_id[1][2])
         ELSE TRUE
    ELSE FALSE

should_route_block_id_to_legacy(legacy_client, block_id) ==
    IF legacy_client # None /\ block_id # None /\ block_id[1][1] = "Number"
    THEN should_route_to_legacy(legacy_client, block_id[1][2])
    ELSE FALSE

\* LegacyRpc::should_route_to_legacy, the provided method of the trait, on the
\* client that legacy_rpc_client() returns.  The faulty variant also routes
\* the cutoff block.
LegacyRpc_should_route_to_legacy_inclusive(legacy_rpc_client, block_number) ==
    IF legacy_rpc_client # None
    THEN block_number <= legacy_rpc_client[1].cutoff_block
    ELSE FALSE

LegacyRpc_should_route_to_legacy(legacy_rpc_client, block_number) ==
    IF legacy_rpc_client # None
    THEN block_number < legacy_rpc_client[1].cutoff_block
    ELSE FALSE

\* ------------------------------------------------------------------------
\* The host: the interpreter that drives both inspectors with the same hooks.
\* Frames are entered and left in a well-nested way; initialize_interp is
\* invoked before the first frame of the execution, or not at all.  In these
\* sequences an exit follows its enter, so current_depth - 1 stays in u64.
\* ------------------------------------------------------------------------
SelfdestructArgs ==
    { [contract |-> "a2", target |-> "a1", value |-> 17] }

OpenPositions == [i \in 1..Len(g_open) |-> g_open[i].pos]
TopFrame == g_open[Len(g_open)]
PopFrame == SubSeq(g_open, 1, Len(g_open) - 1)

InitInspector ==
    /\ evm = InnerTxInspector_new
    /\ revm = InnerTxInspector_new
    /\ g_open = <<>>
    /\ g_info = <<>>
    /\ g_failed = {}
    /\ g_events = 0
    /\ g_run = [inited |-> FALSE, started |-> FALSE, txs |-> 0, tx_start |-> 0,
                hooks |-> 0, unmatched |-> 0, halted |-> FALSE]

InitializeInterp ==
    /\ ~g_run.started
    /\ evm' = initialize_interp(evm)
    /\ revm' = initialize_interp(revm)
    /\ g_run' = [g_run EXCEPT !.inited = TRUE, !.txs = 1]
    /\ UNCHANGED <<g_open, g_info, g_failed, g_events>>
    /\ UNCHANGED <<filterVars, apolloVars>>

\* step, step_end and log: observed, nothing recorded
Ignored ==
    /\ \E h \in {"step", "step_end", "log"} : UNCHANGED <<inspVars, apolloVars>>
    /\ UNCHANGED <<filterVars, apolloVars>>

CallEnter ==
    /\ Len(g_info) < MaxRecs
    /\ \E inputs \in CallInputsSet :
        /\ evm' = inspector_call(evm, "evm", inputs)
        /\ revm' = inspector_call(revm, "revm", inputs)
        /\ g_open' = Append(g_open, [pos |-> Len(g_info), kind |-> "call",
                                     inputs |-> inputs])
    /\ g_info' = Append(g_info, [kind |-> "call", anc |-> OpenPositions])
    /\ g_events' = g_events + 1
    /\ g_run' = [g_run EXCEPT !.started = TRUE]
    /\ UNCHANGED g_failed
    /\ UNCHANGED <<filterVars, apolloVars>>

CallEnd ==
    /\ g_open # <<>>
    /\ TopFrame.kind = "call"
    /\ \E outcome \in CallOutcomes(TopFrame.inputs) :
        /\ evm' = inspector_call_end(evm, TopFrame.inputs, outcome)
        /\ revm' = inspector_call_end(revm, TopFrame.inputs, outcome)
        /\ g_failed' = IF InstructionResult_is_error(outcome.result.result)
                       THEN g_failed \cup (TopFrame.pos .. (Len(g_info) - 1))
                       ELSE g_failed
    /\ g_open' = PopFrame
    /\ UNCHANGED <<g_info, g_events, g_run>>
    /\ UNCHANGED <<filterVars, apolloVars>>

CreateEnter ==
    /\ Len(g_info) < MaxRecs
    /\ \E inputs \in CreateInputsSet :
        /\ evm' = inspector_create(evm, "evm", inputs)
        /\ revm' = inspector_create(revm, "revm", inputs)
        /\ g_open' = Append(g_open, [pos |-> Len(g_info), kind |-> "create",
                                     inputs |-> inputs])
    /\ g_info' = Append(g_info, [kind |-> "create", anc |-> OpenPositions])
    /\ g_events' = g_events + 1
    /\ g_run' = [g_run EXCEPT !.started = TRUE]
    /\ UNCHANGED g_failed
    /\ UNCHANGED <<filterVars, apolloVars>>

CreateEnd ==
    /\ g_open # <<>>
    /\ TopFrame.kind = "create"
    /\ \E outcome \in CreateOutcomes(TopFrame.inputs) :
        /\ evm' = inspector_create_end(evm, TopFrame.inputs, outcome)
        /\ revm' = inspector_create_end(revm, TopFrame.inputs, outcome)
        /\ g_failed' = IF InstructionResult_is_error(outcome.result.result)
                       THEN g_failed \cup (TopFrame.pos .. (Len(g_info) - 1))
                       ELSE g_failed
    /\ g_open' = PopFrame
    /\ UNCHANGED <<g_info, g_events, g_run>>
    /\ UNCHANGED <<filterVars, apolloVars>>

\* SELFDESTRUCT is executed by running code: inside an open frame, or in the
\* top-level code once the interpreter was initialised.
Selfdestruct ==
    /\ g_open # <<>> \/ g_run.inited
    /\ Len(g_info) < MaxRecs
    /\ \E a \in SelfdestructArgs :
        /\ evm' = handle_selfdestruct(evm, "evm", a.contract, a.target, a.value)
        /\ revm' = handle_selfdestruct(revm, "revm", a.contract, a.target, a.value)
    /\ g_info' = Append(g_info, [kind |-> "suicide", anc |-> OpenPositions])
    /\ g_events' = g_events + 1
    /\ g_run' = [g_run EXCEPT !.started = TRUE]
    /\ UNCHANGED <<g_open, g_failed>>
    /\ UNCHANGED <<filterVars, apolloVars>>

\* ------------------------------------------------------------------------
\* Remote configuration client (crates/apollo)
\* ------------------------------------------------------------------------
MaxStops == 1       \* stop_listening calls of one process
MaxItems == 2       \* items of a JSON array or a ConfigValue::Array

\* HashMap::new()
EmptyMap == [k \in {} |-> 0]

\* A namespace name, written as the pieces around each '-' with the '-'
\* between them: "jsonrpc-a" is <<"jsonrpc", "-", "a">>
NsJsonrpcA == <<"jsonrpc", "-", "a">>
NsJsonrpcB == <<"jsonrpc", "-", "b">>
NsSequencer == <<"sequencer">>

\* The name as one string
RECURSIVE namespace_str(_)
namespace_str(ns) ==
    IF ns = <<>> THEN "" ELSE Head(ns) \o namespace_str(Tail(ns))

\* namespace.split('-').next(): what precedes the first '-'.  next() on a
\* split is never None, so the InvalidNamespace error cannot occur.
RECURSIVE split_first(_)
split_first(ns) ==
    IF ns = <<>> \/ Head(ns) = "-" THEN ""
    ELSE Head(ns) \o split_first(Tail(ns))

get_namespace_prefix(namespace) == [ok |-> TRUE, value |-> split_first(namespace)]

\* ApolloConfig
ApolloConfig(meta_server, app_id, cluster_name, namespaces) ==
    [meta_server |-> meta_server, app_id |-> app_id,
     cluster_name |-> cluster_name, namespaces |-> namespaces, secret |-> None]

ValidConfigs ==
    { ApolloConfig(<<"http://meta:8080">>, "xlayer", "default", n) :
        n \in {Some(<<NsJsonrpcA>>), Some(<<NsJsonrpcA, NsSequencer>>)} }

InvalidConfigs ==
    { ApolloConfig(<<"http://meta:8080">>, "", "default", Some(<<NsJsonrpcA>>)),
      ApolloConfig(<<>>, "xlayer", "default", Some(<<NsJsonrpcA>>)),
      ApolloConfig(<<"http://meta:8080">>, "xlayer", "", Some(<<NsJsonrpcA>>)),
      ApolloConfig(<<"http://meta:8080">>, "xlayer", "default",
                   Some(<<NsJsonrpcA, NsJsonrpcB>>)) }

ApolloConfigs == ValidConfigs \cup InvalidConfigs

ClientInit(message) == [ok |-> FALSE, error |-> [kind |-> "ClientInit", message |-> message]]

\* The loop of new_instance that fills namespace_map (prefix -> name).  The
\* faulty variant lets a later namespace replace an earlier one of the same
\* prefix.
RECURSIVE namespace_map_from_overwrite(_, _)
namespace_map_from_overwrite(namespaces, namespace_map) ==
    IF namespaces = <<>> THEN [ok |-> TRUE, value |-> namespace_map]
    ELSE LET prefix == get_namespace_prefix(Head(namespaces))
         IN namespace_map_from_overwrite(Tail(namespaces),
                map_insert(namespace_map, prefix.value, namespace_str(Head(namespaces))))

RECURSIVE namespace_map_from(_, _)
namespace_map_from(namespaces, namespace_map) ==
    IF namespaces = <<>> THEN [ok |-> TRUE, value |-> namespace_map]
    ELSE LET prefix == get_namespace_prefix(Head(namespaces))
         IN IF ~prefix.ok THEN prefix
            ELSE IF prefix.value \in DOMAIN namespace_map
            THEN ClientInit("duplicate apollo namespace")
            ELSE namespace_map_from(Tail(namespaces),
                    map_insert(namespace_map, prefix.value, namespace_str(Head(namespaces))))

\* The orders in which a HashMap's values can be iterated
Orders(map) ==
    LET n == Cardinality(DOMAIN map)
    IN { s \in SeqsUpTo({map[k] : k \in DOMAIN map}, n) :
            /\ Len(s) = n
            /\ \A i, j \in 1..n : s[i] = s[j] => i = j }

\* ListenerState
ListenerState(task, shutdown_tx) == [task |-> task, shutdown_tx |-> shutdown_tx]

\* ApolloClient::new_instance.  sdk_ok is whether apollo_sdk's client could be
\* created (the configuration service was reachable); order is the order in
\* which the HashMap that is built iterates, the same for all its clones.
new_instance(config, flags, sdk_ok, order) ==
    IF config.app_id = "" \/ config.meta_server = <<>> \/ config.cluster_name = ""
    THEN ClientInit("apollo enabled but config is not valid")
    ELSE IF ~sdk_ok THEN ClientInit("Failed to connect to Apollo")
    ELSE LET namespace_map ==
                 IF config.namespaces = None THEN [ok |-> TRUE, value |-> EmptyMap]
                 ELSE namespace_map_from(config.namespaces[1], EmptyMap)
         IN IF ~namespace_map.ok THEN namespace_map
            ELSE [ok |-> TRUE,
                  value |-> [config |-> config,
                             namespace_map |-> namespace_map.value,
                             order |-> order,
                             flags |-> flags,
                             cache |-> EmptyMap,
                             listener_state |-> ListenerState(None, None)]]

\* A configuration document: the lines of a YAML mapping with distinct keys,
\* some of which may not be "key: value" at all
Line(key, value) == [well_formed |-> TRUE, key |-> key, value |-> value]
Malformed == [well_formed |-> FALSE, key |-> "", value |-> 0]

\* serde_yaml::from_str::<HashMap<String, JsonValue>>: one line that is not
\* part of a mapping makes the whole document an error
RECURSIVE serde_yaml_from_str(_)
serde_yaml_from_str(doc) ==
    IF doc = <<>> THEN [ok |-> TRUE, value |-> EmptyMap]
    ELSE LET rest == serde_yaml_from_str(Tail(doc))
         IN IF ~Head(doc).well_formed \/ ~rest.ok
            THEN [ok |-> FALSE, error |-> "ParseError"]
            ELSE [ok |-> TRUE,
                  value |-> [k \in DOMAIN rest.value \cup {Head(doc).key} |->
                                IF k \in DOMAIN rest.value THEN rest.value[k]
                                ELSE Head(doc).value]]

\* update_cache_from_config: every parsed pair is inserted under its own key.
\* The faulty variant empties the cache when the document does not parse.
update_cache_from_config_clear(cache, namespace, config_value) ==
    LET parsed_config == serde_yaml_from_str(config_value)
    IN IF parsed_config.ok
       THEN [k \in DOMAIN cache \cup DOMAIN parsed_config.value |->
                IF k \in DOMAIN parsed_config.value THEN parsed_config.value[k]
                ELSE cache[k]]
       ELSE EmptyMap

update_cache_from_config(cache, namespace, config_value) ==
    LET parsed_config == serde_yaml_from_str(config_value)
    IN IF parsed_config.ok
       THEN [k \in DOMAIN cache \cup DOMAIN parsed_config.value |->
                IF k \in DOMAIN parsed_config.value THEN parsed_config.value[k]
                ELSE cache[k]]
       ELSE cache

\* get_cached_config: the entry format!("{}:{}", namespace, key)
get_cached_config(client, namespace, key) ==
    LET k == namespace \o ":" \o key
    IN IF k \in DOMAIN client.cache THEN Some(client.cache[k]) ELSE None

\* load_config: the documents the service has for the namespaces, visited in
\* the given order
RECURSIVE load_config(_, _, _)
load_config(cache, namespaces, documents) ==
    IF namespaces = <<>> THEN cache
    ELSE LET config == documents[Head(namespaces)]
         IN load_config(IF config = None THEN cache
                        ELSE update_cache_from_config(cache, Head(namespaces), config[1]),
                        Tail(namespaces), documents)

\* The iteration orders of the namespace_map that new_instance builds from a
\* config (any order of the names when no map is built)
NamespaceOrders(config) ==
    LET namespace_map == IF config.namespaces = None
                         THEN [ok |-> TRUE, value |-> EmptyMap]
                         ELSE namespace_map_from(config.namespaces[1], EmptyMap)
    IN IF namespace_map.ok THEN Orders(namespace_map.value) ELSE {<<>>}

\* OnceCell::new / OnceCell::get
OnceCell_new == [state |-> "empty", value |-> None]
OnceCell_get(c) == IF c.state = "set" THEN c.value ELSE None

\* get_or_try_init: a caller runs its initialiser only while the cell is empty
\* and no other initialiser is running.  The faulty variant only looks at
\* whether the cell is set.
get_or_try_init_enter_unguarded(c) == c.state # "set"
get_or_try_init_enter(c) == c.state = "empty"

\* JoinHandle::abort on a listener task: nothing for a task that has ended; a
\* task waiting in select! is dropped at once; a task in the middle of a tick
\* is dropped at its next await that has to wait.  The faulty variant leaves
\* the task as it is.
abort_ignored(task) == task
abort(task) ==
    IF task.state # "running" THEN task
    ELSE IF task.todo = <<>>
    THEN [task EXCEPT !.state = "ended", !.shutdown = FALSE]
    ELSE [task EXCEPT !.state = "aborting"]

\* start_listening, "Already listening": state.task.is_some().  The faulty
\* variant never finds a task.
already_listening_never(state) == FALSE
already_listening(state) == state.task # None

\* ------------------------------------------------------------------------
\* Config values.  A serde_json Value is Null, a Bool, a Number (a
\* non-negative integer, a negative integer or a float), a String, an Array
\* or an Object.  Integer widths are scaled to the range of the model's
\* integers; the order i32::MAX < u32::MAX < i64::MAX < u64::MAX is kept.
\* ------------------------------------------------------------------------
I32_MAX == 32767
I32_MIN == -I32_MAX - 1
U32_MAX == 65535
I64_MAX == U64_MAX \div 2
I64_MIN == -I64_MAX - 1

JsonNull == <<"Null">>
JsonBool(b) == <<"Bool", b>>
JsonPosInt(n) == <<"PosInt", n>>
JsonNegInt(n) == <<"NegInt", n>>
JsonFloat(whole, tenths) == <<"Float", <<whole, tenths>>>>
JsonString(s) == <<"String", s>>
JsonArray(values) == <<"Array", values>>
JsonObject == <<"Object">>

\* serde_json::Value::as_u64 / as_i64 / as_bool / as_f64 / as_str
Value_as_u64(value) == IF value[1] = "PosInt" THEN Some(value[2]) ELSE None

Value_as_i64(value) ==
    IF value[1] = "PosInt"
    THEN IF value[2] <= I64_MAX THEN Some(value[2]) ELSE None
    ELSE IF value[1] = "NegInt" THEN Some(value[2]) ELSE None

Value_as_bool(value) == IF value[1] = "Bool" THEN Some(value[2]) ELSE None

Value_as_f64(value) ==
    IF value[1] = "Float" THEN Some(value[2])
    ELSE IF value[1] \in {"PosInt", "NegInt"} THEN Some(<<value[2], 0>>)
    ELSE None

Value_as_str(value) == IF value[1] = "String" THEN Some(value[2]) ELSE None

\* enum ConfigValue
U64(v) == <<"U64", v>>
U32(v) == <<"U32", v>>
I64(v) == <<"I64", v>>
I32(v) == <<"I32", v>>
Bool(v) == <<"Bool", v>>
String(v) == <<"String", v>>
F64(v) == <<"F64", v>>
Array(values) == <<"Array", values>>

\* ConfigValue::from_json: the first of as_u64, as_i64, as_bool, as_f64 and
\* as_str that answers decides the variant; any other value gives None.
from_json(value) ==
    IF Value_as_u64(value) # None THEN Some(U64(Value_as_u64(value)[1]))
    ELSE IF Value_as_i64(value) # None THEN Some(I64(Value_as_i64(value)[1]))
    ELSE IF Value_as_bool(value) # None THEN Some(Bool(Value_as_bool(value)[1]))
    ELSE IF Value_as_f64(value) # None THEN Some(F64(Value_as_f64(value)[1]))
    ELSE IF Value_as_str(value) # None THEN Some(String(Value_as_str(value)[1]))
    ELSE None

\* The typed accessors of ConfigValue; try_into() succeeds when the value is
\* in the range of the target type
as_u64(self) ==
    IF self[1] = "U64" THEN Some(self[2])
    ELSE IF self[1] = "U32" THEN Some(self[2])
    ELSE None

as_u32(self) ==
    IF self[1] = "U32" THEN Some(self[2])
    ELSE IF self[1] = "U64"
    THEN IF self[2] <= U32_MAX THEN Some(self[2]) ELSE None
    ELSE None

as_i64(self) ==
    IF self[1] = "I64" THEN Some(self[2])
    ELSE IF self[1] = "I32" THEN Some(self[2])
    ELSE None

as_i32(self) ==
    IF self[1] = "I32" THEN Some(self[2])
    ELSE IF self[1] = "I64"
    THEN IF I32_MIN <= self[2] /\ self[2] <= I32_MAX THEN Some(self[2]) ELSE None
    ELSE None

as_f64(self) == IF self[1] = "F64" THEN Some(self[2]) ELSE None

as_bool(self) == IF self[1] = "Bool" THEN Some(self[2]) ELSE None

as_string(self) == IF self[1] = "String" THEN Some(self[2]) ELSE None

\* The types that implement FromConfigValue; Vec(T) is Vec<T>
ScalarTypes ==
    {<<"u64">>, <<"u32">>, <<"i64">>, <<"i32">>, <<"f64">>, <<"bool">>, <<"String">>}
Vec(T) == <<"Vec", T>>

\* Iterator::collect::<Option<Vec<_>>>: None as soon as one item is None
RECURSIVE collect(_)
collect(items) ==
    IF items = <<>> THEN Some(<<>>)
    ELSE LET rest == collect(Tail(items))
         IN IF Head(items) = None \/ rest = None THEN None
            ELSE Some(<<Head(items)[1]>> \o rest[1])

\* T::from_config_value for the implementations of FromConfigValue
RECURSIVE from_config_value(_, _)
from_config_value(T, value) ==
    IF T[1] = "u64" THEN as_u64(value)
    ELSE IF T[1] = "u32" THEN as_u32(value)
    ELSE IF T[1] = "i64" THEN as_i64(value)
    ELSE IF T[1] = "i32" THEN as_i32(value)
    ELSE IF T[1] = "f64" THEN as_f64(value)
    ELSE IF T[1] = "bool" THEN as_bool(value)
    ELSE IF T[1] = "String" THEN as_string(value)
    ELSE IF value[1] = "Array"
    THEN collect([p \in 1..Len(value[2]) |-> from_config_value(T[2], value[2][p])])
    ELSE None

\* The JSON values and config values the operations are applied to
JsonScalars ==
    { JsonNull, JsonObject, JsonBool(TRUE), JsonBool(FALSE),
      JsonPosInt(0), JsonPosInt(1), JsonPosInt(U32_MAX), JsonPosInt(U32_MAX + 1),
      JsonPosInt(U64_MAX),
      JsonNegInt(-1), JsonNegInt(I32_MIN), JsonNegInt(I32_MIN - 1), JsonNegInt(I64_MIN),
      JsonFloat(1, 5), JsonString(""), JsonString("a") }

JsonItems == { JsonPosInt(1), JsonNegInt(-1), JsonBool(TRUE), JsonString("a"), JsonNull }

JsonValues == JsonScalars \cup { JsonArray(items) : items \in SeqsUpTo(JsonItems, MaxItems) }

ConfigItems == { U64(1), U32(1), I64(-1), I32(-1), String("a") }

ConfigValues ==
    { U64(U32_MAX + 1), U32(U32_MAX), I64(I32_MIN - 1), I32(I32_MIN), Bool(TRUE),
      F64(<<1, 5>>) }
    \cup ConfigItems
    \cup { Array(items) : items \in SeqsUpTo(ConfigItems, MaxItems) }

Types == ScalarTypes \cup { Vec(T) : T \in ScalarTypes }

\* The threads that share one filter manager
Threads == {"t1", "t2"}

\* The names under which the configuration service keeps documents
RemoteNames == {namespace_str(NsJsonrpcA), namespace_str(NsSequencer)}

\* The documents the service publishes: for "jsonrpc-a" one that parses and one
\* that does not, for "sequencer" one that parses and shares a key with the
\* first
Documents(namespace) ==
    IF namespace = namespace_str(NsJsonrpcA)
    THEN { <<Line("timeout", 1), Line("limit", 1)>>, <<Line("timeout", 3), Malformed>> }
    ELSE { <<Line("timeout", 2)>> }

\* No get_instance call yet: INSTANCE is empty, no client and no task exists
InitApolloIdle ==
    /\ cell = OnceCell_new
    /\ instances = <<>>
    /\ tasks = <<>>
    /\ remote = [n \in RemoteNames |-> None]
    /\ callers = [t \in Threads |->
                    [pc |-> "idle", config |-> None, client |-> None, ignored |-> FALSE]]
    /\ g_apollo = [stops |-> 0, parse_error |-> None]


InitStoreIdle ==
    /\ thr = [t \in Threads |-> [pc |-> "idle"]]
    /\ g_reg = [calls |-> 0, live |-> {}, before |-> {}, issued |-> {}]

InitFilterIdle ==
    /\ mgr = CrossBoundaryFilterManager_new(0)
    /\ ret = [op |-> "none"]
    /\ InitStoreIdle
    /\ InitApolloIdle

Init == InitInspector /\ InitFilterIdle

Next ==
    \/ InitializeInterp
    \/ Ignored
    \/ CallEnter
    \/ CallEnd
    \/ CreateEnter
    \/ CreateEnd
    \/ Selfdestruct

Spec == Init /\ [][Next]_vars

\* ------------------------------------------------------------------------
\* One inspector instance observing several transactions in sequence: once
\* every frame of a transaction has exited, the interpreter of the next
\* transaction is initialised on the same inspector.
\* ------------------------------------------------------------------------
MaxTxs == 2         \* transactions observed by one inspector instance

NextTransaction ==
    /\ g_run.inited
    /\ g_run.started
    /\ g_open = <<>>
    /\ g_run.txs < MaxTxs
    /\ Len(g_info) > g_run.tx_start
    /\ evm' = initialize_interp(evm)
    /\ revm' = initialize_interp(revm)
    /\ g_run' = [g_run EXCEPT !.txs = g_run.txs + 1, !.tx_start = Len(g_info)]
    /\ UNCHANGED <<g_open, g_info, g_failed, g_events>>
    /\ UNCHANGED <<filterVars, apolloVars>>

NextTxs ==
    \/ Next
    \/ NextTransaction

SpecTxs == Init /\ [][NextTxs]_vars

\* ------------------------------------------------------------------------
\* Any hook sequence: the hooks in whatever order a caller invokes them, an
\* exit hook with no frame open and initialize_interp between frames
\* included.  An exit hook closes the innermost open frame, if there is one.
\* A panic ends the sequence.
\* ------------------------------------------------------------------------
MaxHooks == 6       \* hooks invoked in one sequence, step / step_end / log aside

\* The hooks invoked so far: those that made a record, and the others
HookCount == Len(g_info) + g_run.hooks

HookInitializeInterp ==
    /\ ~g_run.halted
    /\ HookCount < MaxHooks
    /\ evm' = initialize_interp(evm)
    /\ revm' = initialize_interp(revm)
    /\ g_run' = [g_run EXCEPT !.inited = TRUE, !.hooks = g_run.hooks + 1]
    /\ UNCHANGED <<g_open, g_info, g_failed, g_events>>
    /\ UNCHANGED <<filterVars, apolloVars>>

HookCall ==
    /\ ~g_run.halted
    /\ HookCount < MaxHooks
    /\ CallEnter

HookCreate ==
    /\ ~g_run.halted
    /\ HookCount < MaxHooks
    /\ CreateEnter

HookSelfdestruct ==
    /\ ~g_run.halted
    /\ HookCount < MaxHooks
    /\ Len(g_info) < MaxRecs
    /\ \E a \in SelfdestructArgs :
        /\ evm' = handle_selfdestruct(evm, "evm", a.contract, a.target, a.value)
        /\ revm' = handle_selfdestruct(revm, "revm", a.contract, a.target, a.value)
    /\ g_info' = Append(g_info, [kind |-> "suicide", anc |-> OpenPositions])
    /\ g_events' = g_events + 1
    /\ g_run' = [g_run EXCEPT !.started = TRUE]
    /\ UNCHANGED <<g_open, g_failed>>
    /\ UNCHANGED <<filterVars, apolloVars>>

\* What the host's view becomes when an exit hook returns
HookExitGhost(is_error) ==
    /\ g_failed' = IF is_error /\ g_open # <<>>
                   THEN g_failed \cup (TopFrame.pos .. (Len(g_info) - 1))
                   ELSE g_failed
    /\ g_open' = IF g_open # <<>> THEN PopFrame ELSE g_open
    /\ g_run' = IF g_open # <<>>
                THEN [g_run EXCEPT !.hooks = g_run.hooks + 1]
                ELSE [g_run EXCEPT !.hooks = g_run.hooks + 1,
                                   !.unmatched = g_run.unmatched + 1]

HookHalt ==
    /\ g_run' = [g_run EXCEPT !.halted = TRUE]
    /\ UNCHANGED <<evm, revm, g_open, g_failed>>

HookCallEnd ==
    /\ ~g_run.halted
    /\ HookCount < MaxHooks
    /\ \E inputs \in CallInputsSet :
        \E outcome \in CallOutcomes(inputs) :
            \E e \in call_end_results(evm, inputs, outcome) :
                \E r \in call_end_results(revm, inputs, outcome) :
                    /\ e.panic = r.panic
                    /\ IF e.panic THEN HookHalt
                       ELSE /\ evm' = e.self
                            /\ revm' = r.self
                            /\ HookExitGhost(InstructionResult_is_error(
                                                 outcome.result.result))
    /\ UNCHANGED <<g_info, g_events>>
    /\ UNCHANGED <<filterVars, apolloVars>>

HookCreateEnd ==
    /\ ~g_run.halted
    /\ HookCount < MaxHooks
    /\ \E inputs \in CreateInputsSet :
        \E outcome \in CreateOutcomes(inputs) :
            \E e \in create_end_results(evm, inputs, outcome) :
                \E r \in create_end_results(revm, inputs, outcome) :
                    /\ e.panic = r.panic
                    /\ IF e.panic THEN HookHalt
                       ELSE /\ evm' = e.self
                            /\ revm' = r.self
                            /\ HookExitGhost(InstructionResult_is_error(
                                                 outcome.result.result))
    /\ UNCHANGED <<g_info, g_events>>
    /\ UNCHANGED <<filterVars, apolloVars>>

NextHooks ==
    \/ HookInitializeInterp
    \/ Ignored
    \/ HookCall
    \/ HookCallEnd
    \/ HookCreate
    \/ HookCreateEnd
    \/ HookSelfdestruct

SpecHooks == Init /\ [][NextHooks]_vars

\* ------------------------------------------------------------------------
\* Properties of the inspector
\* ------------------------------------------------------------------------
Recs(self) == get_inner_txs(self)
Positions == 0 .. (Len(g_info) - 1)
IsFrame(p) == g_info[p + 1].kind \in {"call", "create"}
NoSelfdestruct == \A p \in Positions : IsFrame(p)

\* The number of frames entered before position p under the same open parent
SiblingRank(p) ==
    Cardinality({q \in Positions :
                    q < p /\ IsFrame(q) /\ g_info[q + 1].anc = g_info[p + 1].anc})

\* The internal indices, in order of depth, of the frames open when the record
\* at position p was made, followed by the record's own
AncestorPath(self, p) ==
    LET anc == g_info[p + 1].anc
    IN [j \in 1..Len(anc) |-> Recs(self)[anc[j] + 1].internal_index]
         \o <<Recs(self)[p + 1].internal_index>>

RECURSIVE JoinIndices(_)
JoinIndices(t) ==
    IF t = <<>> THEN "" ELSE "_" \o ToString(Head(t)) \o JoinIndices(Tail(t))

\* C1: subtree error propagation.  For every frame whose exit outcome is an
\* error, the frame's own record and every record made while it was open
\* (self-destruct records included) has is_error = true in get_inner_txs(),
\* in both implementations.
C1_SubtreeErrorPropagation ==
    \A p \in g_failed :
        /\ Recs(evm)[p + 1].is_error
        /\ Recs(revm)[p + 1].is_error

\* A failed frame that has a descendant frame and a descendant self-destruct
C1_Witness ==
    \E f \in g_failed :
        /\ IsFrame(f)
        /\ f \notin {g_open[i].pos : i \in 1..Len(g_open)}
        /\ \E c, sd \in g_failed :
            /\ c # f /\ IsFrame(c) /\ g_info[c + 1].anc # <<>>
            /\ g_info[c + 1].anc[Len(g_info[c + 1].anc)] = f
            /\ ~IsFrame(sd) /\ g_info[sd + 1].anc # <<>>
            /\ g_info[sd + 1].anc[1] = f
        /\ Recs(evm)[f + 1].is_error

\* C2: error isolation.  A record outside the subtree of every failed frame
\* (an ancestor, an earlier sibling, a frame entered after the failed frame
\* exited) is not marked is_error, in both implementations.
C2_ErrorIsolation ==
    \A p \in Positions :
        p \notin g_failed =>
            /\ ~Recs(evm)[p + 1].is_error
            /\ ~Recs(revm)[p + 1].is_error

\* The part of C2 that the crates/ethereum/evm implementation satisfies
C2_ErrorIsolation_evm ==
    \A p \in Positions : p \notin g_failed => ~Recs(evm)[p + 1].is_error

\* C3: the trace address of every record is its ancestor path: the internal
\* indices of the frames open when it was recorded, by depth, then its own.
C3_TraceAddressIsAncestorPath ==
    \A p \in Positions :
        Recs(evm)[p + 1].trace_address = AncestorPath(evm, p)

\* The part of C3 that holds: executions without a self-destruct
C3_TraceAddress_NoSelfdestruct ==
    NoSelfdestruct =>
        \A p \in Positions :
            /\ Recs(evm)[p + 1].trace_address = AncestorPath(evm, p)
            /\ Recs(revm)[p + 1].trace_address = AncestorPath(revm, p)

\* C4: in an execution that starts with initialize_interp, every record with
\* trace_address [i1..ik] has depth k and name call_type_i1_.._ik.
C4_DepthAndName ==
    g_run.inited =>
        \A p \in Positions :
            LET r == Recs(evm)[p + 1]
            IN /\ r.depth = Len(r.trace_address)
               /\ r.name = r.call_type \o JoinIndices(r.trace_address)

\* The part of C4 that holds in every execution: the name
C4_NameOnly ==
    \A p \in Positions :
        LET r == Recs(evm)[p + 1]
        IN r.name = r.call_type \o JoinIndices(r.trace_address)

\* C5: sibling indexing.  Without self-destructs, the frames entered under the
\* same open parent get internal_index 0, 1, 2, .. in entry order (so the first
\* child of a newly entered parent gets 0).  Instance: two top-level siblings
\* and a child of the second give depth/index (1,0), (1,1), (2,0) and the
\* nested trace_address [1, 0].
C5_SiblingIndexing ==
    NoSelfdestruct =>
        /\ \A p \in Positions :
            /\ Recs(evm)[p + 1].internal_index = SiblingRank(p)
            /\ Recs(revm)[p + 1].internal_index = SiblingRank(p)
        /\ ( /\ ~g_run.inited
             /\ Len(g_info) >= 3
             /\ g_info[1].anc = <<>>
             /\ g_info[2].anc = <<>>
             /\ g_info[3].anc = <<1>> )
           => \A self \in {evm, revm} :
                /\ Recs(self)[1].depth = 1 /\ Recs(self)[1].internal_index = 0
                /\ Recs(self)[2].depth = 1 /\ Recs(self)[2].internal_index = 1
                /\ Recs(self)[3].depth = 2 /\ Recs(self)[3].internal_index = 0
                /\ Recs(self)[3].trace_address = <<1, 0>>

\* Two top-level siblings, the second with two children, after all exits
C5_Witness ==
    /\ NoSelfdestruct
    /\ ~g_run.inited
    /\ g_open = <<>>
    /\ Len(g_info) = 4
    /\ g_info[1].anc = <<>>
    /\ g_info[2].anc = <<>>
    /\ g_info[3].anc = <<1>>
    /\ g_info[4].anc = <<1>>
    /\ Recs(evm)[4].internal_index = 1

\* C10: the number of records equals the number of call_enter, create_enter
\* and selfdestruct hooks observed; exits, step, step_end and log add none.
C10_RecordCount ==
    /\ Len(Recs(evm)) = g_events
    /\ Len(Recs(revm)) = g_events

\* A call, a create and a self-destruct were observed and every frame exited
C10_Witness ==
    /\ g_events >= 3
    /\ g_open = <<>>
    /\ \E p, q, r \in Positions :
        /\ g_info[p + 1].kind = "call"
        /\ g_info[q + 1].kind = "create"
        /\ g_info[r + 1].kind = "suicide"
    /\ Len(Recs(evm)) = 3

\* The outcomes an exit hook can report for a frame, and the exit hook itself
ExitOutcomes(frame) ==
    IF frame.kind = "call" THEN CallOutcomes(frame.inputs)
    ELSE CreateOutcomes(frame.inputs)

inspector_exit(self, frame, outcome) ==
    IF frame.kind = "call" THEN inspector_call_end(self, frame.inputs, outcome)
    ELSE inspector_create_end(self, frame.inputs, outcome)

\* The record at position pos of get_inner_txs() carries what the exit reported
RecordFinalised(self, pos, inputs, outcome) ==
    LET r == Recs(self)[pos + 1]
    IN /\ r.gas_used = inputs.gas_limit - outcome.result.gas_remaining
       /\ r.output = outcome.result.output
       /\ InstructionResult_is_error(outcome.result.result) =>
              (r.error # None /\ r.error[1] # "")

ExitFinalises(old, new) ==
    \A outcome \in ExitOutcomes(TopFrame) :
        new = inspector_exit(old, TopFrame, outcome) =>
            RecordFinalised(new, TopFrame.pos, TopFrame.inputs, outcome)

\* C11: frame exit finalises the emitted record.  In every step in which the
\* innermost open frame exits (call_exit or create_exit), the record of that
\* frame in get_inner_txs() after the step has gas_used = inputs.gas_limit -
\* outcome.gas.remaining, output = outcome.output and, for an error outcome, a
\* non-empty error message.
C11_ExitFinalisesRecord ==
    [][ (g_open # <<>> /\ g_open' = PopFrame) =>
            (ExitFinalises(evm, evm') /\ ExitFinalises(revm, revm')) ]_vars

\* What does hold: the records of get_inner_txs() keep the gas_used, output
\* and error they were created with, whatever the exits reported
C11_RecordsKeepInitialValues ==
    \A p \in Positions :
        \A self \in {evm, revm} :
            /\ Recs(self)[p + 1].gas_used = 0
            /\ Recs(self)[p + 1].output = <<>>
            /\ Recs(self)[p + 1].error = None

CreateResolves(old, new) ==
    \A outcome \in CreateOutcomes(TopFrame.inputs) :
        (new = inspector_create_end(old, TopFrame.inputs, outcome)
            /\ outcome.address # None) =>
                Recs(new)[TopFrame.pos + 1].to = outcome.address

\* C12: create address resolution.  The record of a create frame has no to
\* while the frame is open, and in every step in which a create frame exits
\* with outcome.address present, the record of that frame in get_inner_txs()
\* after the step has to = outcome.address.
C12_CreateAddressResolution ==
    /\ [](\A i \in 1..Len(g_open) :
             g_open[i].kind = "create" =>
                 /\ Recs(evm)[g_open[i].pos + 1].to = None
                 /\ Recs(revm)[g_open[i].pos + 1].to = None)
    /\ [][ (g_open # <<>> /\ g_open' = PopFrame /\ TopFrame.kind = "create") =>
              (CreateResolves(evm, evm') /\ CreateResolves(revm, revm')) ]_vars

\* What does hold: the record of a create frame never gets a to
C12_CreateRecordsHaveNoTo ==
    \A p \in Positions :
        g_info[p + 1].kind = "create" =>
            /\ Recs(evm)[p + 1].to = None
            /\ Recs(revm)[p + 1].to = None

\* C13: re-initialisation.  When one inspector observes two transactions,
\* each begun with initialize_interp, the first record of the second
\* transaction has depth 1 and internal_index 0, whatever the first
\* transaction did.
C13_ReinitialisationResets ==
    (g_run.txs = 2 /\ Len(g_info) > g_run.tx_start) =>
        \A self \in {evm, revm} :
            LET r == Recs(self)[g_run.tx_start + 1]
            IN r.depth = 1 /\ r.internal_index = 0

\* The internal_index part of C13 alone
C13_SecondTransactionIndex ==
    (g_run.txs = 2 /\ Len(g_info) > g_run.tx_start) =>
        \A self \in {evm, revm} :
            Recs(self)[g_run.tx_start + 1].internal_index = 0

\* The call_stack entry at height i is the one pushed when the i-th open
\* frame was entered: the copy of that frame's record and its new_index
EntryOfOpenFrame(self, impl, i) ==
    LET entry == self.call_stack[i]
        r == Recs(self)[g_open[i].pos + 1]
    IN /\ entry[1] = [r EXCEPT !.is_error = FALSE]
       /\ entry[1].call_type =
              (IF g_open[i].kind = "call" THEN CallScheme_as_str(g_open[i].inputs.scheme)
               ELSE CreateScheme_as_str(g_open[i].inputs.scheme))
       /\ entry[2] = (IF impl = "evm" \/ g_open[i].pos = 0 THEN g_open[i].pos
                      ELSE g_open[i].pos - 1)

StackOfOpenFrames(self, impl) ==
    /\ Len(self.call_stack) = Len(g_open)
    /\ \A i \in 1..Len(g_open) : EntryOfOpenFrame(self, impl, i)

\* C20: at every point of any hook sequence the length of call_stack is the
\* number of open frames, its entries are, bottom to top, the ones pushed by
\* the enters of the open frames (so an exit pops the entry of the frame it
\* closes), and a self-destruct leaves the stack as it is.
C20_CallStackIsOpenFrames ==
    /\ [](StackOfOpenFrames(evm, "evm") /\ StackOfOpenFrames(revm, "revm"))
    /\ [][ (Len(g_info') = Len(g_info) + 1 /\ g_info'[Len(g_info')].kind = "suicide")
              => (evm'.call_stack = evm.call_stack /\ revm'.call_stack = revm.call_stack)
         ]_vars

\* Two frames are open after a nested frame exited, an exit hook was invoked
\* with no frame open and a self-destruct was recorded
C20_Witness ==
    /\ Len(g_open) = 2
    /\ Len(evm.call_stack) = 2
    /\ g_run.unmatched >= 1
    /\ ~g_run.halted
    /\ \E p \in Positions : ~IsFrame(p)
    /\ g_open[2].pos > g_open[1].pos + 1

\* The largest value current_depth takes by counting: one per hook, from 1
DepthByCounting == MaxHooks + 1

C21_UnmatchedExitKeepsRecords ==
    [][ g_run'.unmatched = g_run.unmatched + 1 =>
          /\ Recs(evm') = Recs(evm)
          /\ Recs(revm') = Recs(revm)
          /\ evm'.call_stack = <<>>
          /\ revm'.call_stack = <<>> ]_vars

IsSuicideStep ==
    /\ Len(g_info') = Len(g_info) + 1
    /\ g_info'[Len(g_info')].kind = "suicide"

SuicideRecordAppended(old, new) ==
    /\ Len(Recs(new)) = Len(Recs(old)) + 1
    /\ SubSeq(Recs(new), 1, Len(Recs(old))) = Recs(old)
    /\ LET r == Recs(new)[Len(Recs(new))]
       IN /\ r.call_type = "suicide"
          /\ \E a \in SelfdestructArgs :
                r.from = a.contract /\ r.to = Some(a.target)
          /\ r.gas = 0
          /\ r.gas_used = 0
          /\ r.input = <<>>
          /\ r.output = <<>>
          /\ r.error = None
          /\ r.code_address = None
    /\ new.current_depth = old.current_depth
    /\ new.call_stack = old.call_stack

\* C22: selfdestruct(contract, beneficiary, value) appends exactly one record,
\* with call_type "suicide", from = contract, to = beneficiary, gas = 0,
\* gas_used = 0, empty input and output, no error and no code_address, and
\* leaves the earlier records, current_depth and call_stack as they were.
C22_SelfdestructRecord ==
    [][ IsSuicideStep =>
          (SuicideRecordAppended(evm, evm') /\ SuicideRecordAppended(revm, revm')) ]_vars

\* A self-destruct was recorded inside a nested open frame
C22_Witness ==
    /\ Len(g_open) = 2
    /\ Len(g_info) >= 3
    /\ g_info[Len(g_info)].kind = "suicide"
    /\ g_info[Len(g_info)].anc = OpenPositions
    /\ Recs(evm)[Len(g_info)].call_type = "suicide"
    /\ evm.current_depth = 2

\* The records of new are those of old, in the same order, followed by at
\* most one more; no field of an old record differs but is_error, which can
\* only go from false to true
AppendOnly(old, new) ==
    /\ Len(Recs(new)) \in {Len(Recs(old)), Len(Recs(old)) + 1}
    /\ \A p \in 1..Len(Recs(old)) :
          /\ [Recs(new)[p] EXCEPT !.is_error = Recs(old)[p].is_error] = Recs(old)[p]
          /\ Recs(old)[p].is_error => Recs(new)[p].is_error

\* The record appended by a step is the one of the hook of that step
InProgramOrder(new) ==
    Len(g_info') = Len(g_info) + 1 =>
        /\ Len(Recs(new)) = Len(g_info')
        /\ LET kind == g_info'[Len(g_info')].kind
               r == Recs(new)[Len(Recs(new))]
           IN \/ kind = "suicide" /\ r.call_type = "suicide"
              \/ kind = "call" /\ r.call_type = "call"
              \/ kind = "create" /\ r.call_type = "create"

InitFilter ==
    /\ InitInspector
    /\ \E c \in Heights : mgr = CrossBoundaryFilterManager_new(c)
    /\ ret = [op |-> "none"]
    /\ InitStoreIdle
    /\ InitApolloIdle

ClassifyFilter ==
    /\ ret.op = "none"
    /\ \E f \in Filters :
        ret' = [op |-> "classify_filter", filter |-> f,
                range |-> parse_block_range(mgr, f),
                result |-> classify_filter(mgr, f)]
    /\ UNCHANGED mgr
    /\ UNCHANGED storeVars
    /\ UNCHANGED <<inspVars, apolloVars>>

SplitFilter ==
    /\ ret.op = "none"
    /\ \E f \in Filters :
        \E r \in split_filter(mgr, f) :
            ret' = [op |-> "split_filter", filter |-> f, result |-> r]
    /\ UNCHANGED mgr
    /\ UNCHANGED storeVars
    /\ UNCHANGED <<inspVars, apolloVars>>

ShouldRouteToLegacy ==
    /\ ret.op = "none"
    /\ \E client \in {None} \cup {Some(LegacyRpcClient_from_config(c)) : c \in Heights} :
        \E number \in BlockNumberOrTags :
            ret' = [op |-> "should_route_to_legacy", legacy_client |-> client,
                    number |-> number,
                    result |-> should_route_to_legacy(client, number)]
    /\ UNCHANGED mgr
    /\ UNCHANGED storeVars
    /\ UNCHANGED <<inspVars, apolloVars>>

ShouldRouteBlockIdToLegacy ==
    /\ ret.op = "none"
    /\ \E client \in {None} \cup {Some(LegacyRpcClient_from_config(c)) : c \in Heights} :
        \E block_id \in BlockIds :
            ret' = [op |-> "should_route_block_id_to_legacy",
                    legacy_client |-> client, block_id |-> block_id,
                    result |-> should_route_block_id_to_legacy(client, block_id)]
    /\ UNCHANGED mgr
    /\ UNCHANGED storeVars
    /\ UNCHANGED <<inspVars, apolloVars>>

LegacyRpcShouldRouteToLegacy ==
    /\ ret.op = "none"
    /\ \E client \in {None} \cup {Some(LegacyRpcClient_from_config(c)) : c \in Heights} :
        \E block_number \in Heights :
            ret' = [op |-> "LegacyRpc::should_route_to_legacy",
                    legacy_client |-> client, block_number |-> block_number,
                    result |-> LegacyRpc_should_route_to_legacy(client, block_number)]
    /\ UNCHANGED mgr
    /\ UNCHANGED storeVars
    /\ UNCHANGED <<inspVars, apolloVars>>

InitLegacyRpcComponents ==
    /\ ret.op = "none"
    /\ \E config \in {None} \cup {Some(c) : c \in LegacyRpcConfigs} :
        ret' = [op |-> "init_legacy_rpc_components", config |-> config,
                result |-> init_legacy_rpc_components(config)]
    /\ UNCHANGED mgr
    /\ UNCHANGED storeVars
    /\ UNCHANGED <<inspVars, apolloVars>>

NextFilter ==
    \/ ClassifyFilter
    \/ SplitFilter
    \/ ShouldRouteToLegacy
    \/ ShouldRouteBlockIdToLegacy
    \/ LegacyRpcShouldRouteToLegacy
    \/ InitLegacyRpcComponents

SpecFilter == InitFilter /\ [][NextFilter]_vars

\* merge_logs does not read the cutoff: the manager is the one of the tests
InitMerge ==
    /\ InitInspector
    /\ mgr = CrossBoundaryFilterManager_new(1000000)
    /\ ret = [op |-> "none"]
    /\ InitStoreIdle
    /\ InitApolloIdle

MergeLogs ==
    /\ ret.op = "none"
    /\ \E legacy_logs \in SeqsUpTo(LogSet, MaxLogs) :
        \E local_logs \in SeqsUpTo(LogSet, MaxLogs) :
            ret' = [op |-> "merge_logs", legacy_logs |-> legacy_logs,
                    local_logs |-> local_logs,
                    result |-> merge_logs(mgr, legacy_logs, local_logs)]
    /\ UNCHANGED mgr
    /\ UNCHANGED storeVars
    /\ UNCHANGED <<inspVars, apolloVars>>

NextMerge == MergeLogs

SpecMerge == InitMerge /\ [][NextMerge]_vars

\* ------------------------------------------------------------------------
\* The filter store: threads sharing one manager call register_filter,
\* get_filter and remove_filter.  Each critical section (a write or read lock
\* held on next_id or on filters) is one step; register_filter takes two, and
\* other threads may run between them.
\* ------------------------------------------------------------------------
RegisterArgs ==
    LET f1 == [block_option |-> [type |-> "Range", from_block |-> Some(Number(999000)),
                                 to_block |-> Some(Number(1001000))],
               address |-> {}, topics |-> <<>>]
        f2 == [block_option |-> [type |-> "Range", from_block |-> Some(Number(0)),
                                 to_block |-> Some(Number(1))],
               address |-> {"a1", "a2"}, topics |-> <<{"t1"}, {"t2", "t3"}>>]
    IN { FilterMetadata(f1, "Hybrid", Some("0x1"), Some("0x2")),
         FilterMetadata(f2, "PureLegacy", Some("0x1"), None) }

\* The ids a caller may pass to get_filter and remove_filter
StoreIds == 1 .. (MaxIds + 1)

InitStore ==
    /\ InitInspector
    /\ mgr = CrossBoundaryFilterManager_new(1000000)
    /\ ret = [op |-> "none"]
    /\ InitStoreIdle
    /\ InitApolloIdle

\* register_filter up to the end of generate_id
RegisterGenerateId(t) ==
    /\ thr[t].pc = "idle"
    /\ g_reg.calls < MaxIds
    /\ \E a \in RegisterArgs :
        LET g == generate_id(mgr)
        IN /\ mgr' = g.self
           /\ thr' = [thr EXCEPT ![t] = [pc |-> "insert", id |-> g.id, args |-> a,
                                         k |-> g_reg.calls + 1]]
    /\ g_reg' = [g_reg EXCEPT !.calls = g_reg.calls + 1]
    /\ UNCHANGED ret
    /\ UNCHANGED <<inspVars, apolloVars>>

\* register_filter from the insert to its return
RegisterInsert(t) ==
    /\ thr[t].pc = "insert"
    /\ LET a == thr[t].args
           metadata == FilterMetadata(a.original_filter, a.filter_type,
                                      a.legacy_id, a.local_id)
       IN mgr' = filters_insert(mgr, thr[t].id, metadata)
    /\ ret' = [op |-> "register_filter", k |-> thr[t].k, args |-> thr[t].args,
               id |-> thr[t].id]
    /\ g_reg' = [g_reg EXCEPT
                    !.before = g_reg.live,
                    !.live = g_reg.live \cup
                               {[k |-> thr[t].k, id |-> thr[t].id, args |-> thr[t].args]},
                    !.issued = g_reg.issued \cup {thr[t].id}]
    /\ thr' = [thr EXCEPT ![t] = [pc |-> "idle"]]
    /\ UNCHANGED <<inspVars, apolloVars>>

GetFilter(t) ==
    /\ thr[t].pc = "idle"
    /\ \E id \in StoreIds :
        ret' = [op |-> "get_filter", id |-> id, result |-> get_filter(mgr, id)]
    /\ g_reg' = [g_reg EXCEPT !.before = g_reg.live]
    /\ UNCHANGED <<mgr, thr>>
    /\ UNCHANGED <<inspVars, apolloVars>>

RemoveFilter(t) ==
    /\ thr[t].pc = "idle"
    /\ \E id \in StoreIds :
        LET r == remove_filter(mgr, id)
        IN /\ mgr' = r.self
           /\ ret' = [op |-> "remove_filter", id |-> id, result |-> r.result]
           /\ g_reg' = [g_reg EXCEPT !.before = g_reg.live,
                                     !.live = {c \in g_reg.live : c.id # id}]
    /\ UNCHANGED thr
    /\ UNCHANGED <<inspVars, apolloVars>>

NextStore ==
    \E t \in Threads :
        \/ RegisterGenerateId(t)
        \/ RegisterInsert(t)
        \/ GetFilter(t)
        \/ RemoveFilter(t)

SpecStore == InitStore /\ [][NextStore]_vars

\* ------------------------------------------------------------------------
\* One process using the remote configuration client: two callers of
\* get_instance / stop_listening, the spawned listener tasks, and the
\* configuration service publishing documents.
\* ------------------------------------------------------------------------
InitApollo ==
    /\ InitInspector
    /\ InitFilterIdle

\* The listener_state mutex is held by a caller inside stop_listening
MutexFree == \A t \in Threads : callers[t].pc # "stop_listening_abort"

Idle == [pc |-> "idle", config |-> None, client |-> None, ignored |-> FALSE]

\* get_instance, INSTANCE.get_or_try_init with the cell empty: this caller is
\* the one that runs new_instance.  A caller that finds another initialiser
\* running waits for its end and is in the model a caller that has not begun.
GetOrTryInitEnter(t) ==
    /\ callers[t].pc = "idle"
    /\ cell.state # "set"
    /\ get_or_try_init_enter(cell)
    /\ cell' = [state |-> "running", value |-> None]
    /\ \E config \in ApolloConfigs :
        callers' = [callers EXCEPT ![t] = [pc |-> "new_instance",
                                           config |-> Some(config),
                                           client |-> None, ignored |-> FALSE]]
    /\ UNCHANGED <<instances, tasks, remote, g_apollo>>
    /\ UNCHANGED <<inspVars, filterVars>>

\* get_instance, INSTANCE.get_or_try_init with the cell set: the initialiser
\* and its config are dropped, the value of the cell is cloned
GetOrTryInitReady(t) ==
    /\ callers[t].pc = "idle"
    /\ cell.state = "set"
    /\ \E config \in ApolloConfigs :
        callers' = [callers EXCEPT ![t] =
                        [pc |-> "start_listening", config |-> None,
                         client |-> OnceCell_get(cell),
                         ignored |-> config # instances[OnceCell_get(cell)[1]].config]]
    /\ UNCHANGED <<cell, instances, tasks, remote, g_apollo>>
    /\ UNCHANGED <<inspVars, filterVars>>

\* new_instance runs to its end; Ok sets the cell, Err leaves it empty and
\* is returned by get_instance through `?`
NewInstance(t) ==
    /\ callers[t].pc = "new_instance"
    /\ \E sdk_ok \in BOOLEAN, order \in NamespaceOrders(callers[t].config[1]) :
        LET r == new_instance(callers[t].config[1], EmptyMap, sdk_ok, order)
        IN IF r.ok
           THEN /\ instances' = Append(instances, r.value)
                /\ cell' = [state |-> "set", value |-> Some(Len(instances) + 1)]
                /\ callers' = [callers EXCEPT ![t] =
                                [pc |-> "start_listening", config |-> None,
                                 client |-> Some(Len(instances) + 1),
                                 ignored |-> FALSE]]
                /\ UNCHANGED ret
           ELSE /\ cell' = OnceCell_new
                /\ callers' = [callers EXCEPT ![t] = Idle]
                /\ ret' = [op |-> "get_instance", ok |-> FALSE,
                           error |-> r.error]
                /\ UNCHANGED instances
    /\ UNCHANGED <<tasks, remote, g_apollo>>
    /\ UNCHANGED <<inspVars, mgr, storeVars>>

\* singleton.start_listening() and the return of get_instance
StartListening(t) ==
    /\ callers[t].pc = "start_listening"
    /\ MutexFree
    /\ LET i == OnceCell_get(cell)[1]
           self == instances[i]
           Ok == [op |-> "get_instance", ok |-> TRUE,
                  client |-> callers[t].client[1], ignored |-> callers[t].ignored]
       IN IF already_listening(self.listener_state)
          THEN /\ ret' = Ok
               /\ UNCHANGED <<instances, tasks>>
          ELSE \E listen_ok \in BOOLEAN :
                IF ~listen_ok
                THEN /\ ret' = [op |-> "get_instance", ok |-> FALSE,
                                error |-> ClientInit("Failed to listen to namespace").error]
                     /\ UNCHANGED <<instances, tasks>>
                ELSE /\ instances' = [instances EXCEPT
                            ![i].cache = load_config(self.cache, self.order, remote),
                            ![i].listener_state =
                                ListenerState(Some(Len(tasks) + 1), Some(Len(tasks) + 1))]
                     /\ tasks' = Append(tasks, [client |-> i, state |-> "running",
                                                todo |-> <<>>, shutdown |-> FALSE])
                     /\ ret' = Ok
    /\ callers' = [callers EXCEPT ![t] = Idle]
    /\ UNCHANGED <<cell, remote, g_apollo>>
    /\ UNCHANGED <<inspVars, mgr, storeVars>>

\* stop_listening up to the end of tx.send(()).await: the mutex is taken and
\* the shutdown sender, if there is one, is taken out and used once
StopListeningSend(t) ==
    /\ callers[t].pc = "idle"
    /\ cell.state = "set"
    /\ MutexFree
    /\ g_apollo.stops < MaxStops
    /\ LET i == OnceCell_get(cell)[1]
           state == instances[i].listener_state
       IN /\ instances' = [instances EXCEPT ![i].listener_state.shutdown_tx = None]
          /\ tasks' = IF state.shutdown_tx # None
                         /\ tasks[state.shutdown_tx[1]].state # "ended"
                      THEN [tasks EXCEPT ![state.shutdown_tx[1]].shutdown = TRUE]
                      ELSE tasks
          /\ callers' = [callers EXCEPT ![t] =
                            [pc |-> "stop_listening_abort", config |-> None,
                             client |-> Some(i), ignored |-> FALSE]]
    /\ g_apollo' = [g_apollo EXCEPT !.stops = @ + 1]
    /\ UNCHANGED <<cell, remote>>
    /\ UNCHANGED <<inspVars, filterVars>>

\* the rest of stop_listening: the task handle is taken out and aborted
StopListeningAbort(t) ==
    /\ callers[t].pc = "stop_listening_abort"
    /\ LET i == callers[t].client[1]
           state == instances[i].listener_state
       IN /\ instances' = [instances EXCEPT ![i].listener_state.task = None]
          /\ tasks' = IF state.task # None
                      THEN [tasks EXCEPT ![state.task[1]] = abort(@)]
                      ELSE tasks
    /\ callers' = [callers EXCEPT ![t] = Idle]
    /\ ret' = [op |-> "stop_listening", ok |-> TRUE]
    /\ UNCHANGED <<cell, remote, g_apollo>>
    /\ UNCHANGED <<inspVars, mgr, storeVars>>

\* listener_task, select!: the sleep of POLL_INTERVAL_SECS ends and a tick
\* over the namespaces begins
ListenerWake(i) ==
    /\ tasks[i].state = "running"
    /\ tasks[i].todo = <<>>
    /\ instances[tasks[i].client].order # <<>>
    /\ tasks' = [tasks EXCEPT ![i].todo = instances[tasks[i].client].order]
    /\ UNCHANGED <<cell, instances, remote, callers, g_apollo>>
    /\ UNCHANGED <<inspVars, filterVars>>

\* listener_task, select!: shutdown_rx.recv() returns, the loop breaks
ListenerShutdown(i) ==
    /\ tasks[i].state = "running"
    /\ tasks[i].todo = <<>>
    /\ tasks[i].shutdown
    /\ tasks' = [tasks EXCEPT ![i].state = "ended", ![i].shutdown = FALSE]
    /\ UNCHANGED <<cell, instances, remote, callers, g_apollo>>
    /\ UNCHANGED <<inspVars, filterVars>>

\* listener_task, one namespace of the tick: with a change event the document
\* is fetched and given to update_cache_from_config, which logs an error for
\* a document that does not parse
ListenerPoll(i) ==
    /\ tasks[i].state \in {"running", "aborting"}
    /\ tasks[i].todo # <<>>
    /\ \E change_event \in BOOLEAN :
        LET namespace == Head(tasks[i].todo)
            config == IF change_event THEN remote[namespace] ELSE None
            c == tasks[i].client
        IN /\ instances' = [instances EXCEPT ![c].cache =
                    IF config = None THEN @
                    ELSE update_cache_from_config(@, namespace, config[1])]
           /\ g_apollo' = [g_apollo EXCEPT !.parse_error =
                    IF config # None /\ ~serde_yaml_from_str(config[1]).ok
                    THEN Some(i) ELSE None]
    /\ tasks' = [tasks EXCEPT ![i].todo = Tail(@)]
    /\ UNCHANGED <<cell, remote, callers>>
    /\ UNCHANGED <<inspVars, filterVars>>

\* an aborted task is dropped at an await, the rest of its tick undone
ListenerAbort(i) ==
    /\ tasks[i].state = "aborting"
    /\ tasks' = [tasks EXCEPT ![i].state = "ended", ![i].shutdown = FALSE]
    /\ UNCHANGED <<cell, instances, remote, callers, g_apollo>>
    /\ UNCHANGED <<inspVars, filterVars>>

\* the configuration service gets a new document for a namespace
RemotePublish ==
    /\ \E namespace \in RemoteNames :
       \E doc \in Documents(namespace) :
        /\ remote[namespace] # Some(doc)
        /\ remote' = [remote EXCEPT ![namespace] = Some(doc)]
    /\ UNCHANGED <<cell, instances, tasks, callers, g_apollo>>
    /\ UNCHANGED <<inspVars, filterVars>>

NextClient ==
    \/ \E t \in Threads : GetOrTryInitEnter(t)
    \/ \E t \in Threads : GetOrTryInitReady(t)
    \/ \E t \in Threads : NewInstance(t)
    \/ \E t \in Threads : StartListening(t)
    \/ \E t \in Threads : StopListeningSend(t)
    \/ \E t \in Threads : StopListeningAbort(t)
    \/ \E i \in 1..Len(tasks) : ListenerWake(i)
    \/ \E i \in 1..Len(tasks) : ListenerShutdown(i)
    \/ \E i \in 1..Len(tasks) : ListenerPoll(i)
    \/ \E i \in 1..Len(tasks) : ListenerAbort(i)

NextApollo == NextClient \/ RemotePublish

SpecApollo == InitApollo /\ [][NextApollo]_vars

\* The tasks one process can spawn: one per start, a start after each stop
TaskIds == 1 .. (MaxStops + 1)

\* The client alone, the documents of the configuration service being what
\* they are when the process starts
InitApolloLive ==
    /\ InitInspector
    /\ mgr = CrossBoundaryFilterManager_new(0)
    /\ ret = [op |-> "none"]
    /\ InitStoreIdle
    /\ cell = OnceCell_new
    /\ instances = <<>>
    /\ tasks = <<>>
    /\ remote \in
         { f \in [RemoteNames ->
                    {None} \cup {Some(doc) : doc \in UNION {Documents(n) : n \in RemoteNames}}] :
             \A n \in RemoteNames :
                f[n] \in {None} \cup {Some(doc) : doc \in Documents(n)} }
    /\ callers = [t \in Threads |-> Idle]
    /\ g_apollo = [stops |-> 0, parse_error |-> None]

\* Scheduling: a caller inside stop_listening runs on (its send cannot wait,
\* the channel of capacity 1 is used once); the runtime drops an aborted task
\* and runs a task whose shutdown_rx.recv() is ready while it waits in select!
SpecApolloLive ==
    /\ InitApolloLive
    /\ [][NextClient]_vars
    /\ \A t \in Threads : WF_vars(StopListeningAbort(t))
    /\ \A i \in TaskIds : WF_vars(i <= Len(tasks) /\ ListenerAbort(i))
    /\ \A i \in TaskIds : WF_vars(i <= Len(tasks) /\ ListenerShutdown(i))

\* ------------------------------------------------------------------------
\* A consumer of config values: one from_json call on a JSON value, and one
\* T::from_config_value call on its result or on a config value built
\* directly.
\* ------------------------------------------------------------------------
InitConfig ==
    /\ InitInspector
    /\ mgr = CrossBoundaryFilterManager_new(1000000)
    /\ ret = [op |-> "none"]
    /\ InitStoreIdle
    /\ InitApolloIdle

FromJson ==
    /\ ret.op = "none"
    /\ \E value \in JsonValues :
        ret' = [op |-> "from_json", value |-> value, result |-> from_json(value)]
    /\ UNCHANGED mgr
    /\ UNCHANGED storeVars
    /\ UNCHANGED <<inspVars, apolloVars>>

FromConfigValue ==
    /\ \/ ret.op = "none"
       \/ ret.op = "from_json" /\ ret.result # None
    /\ \E T \in Types :
       \E value \in IF ret.op = "none" THEN ConfigValues ELSE {ret.result[1]} :
        ret' = [op |-> "from_config_value", type |-> T, value |-> value,
                json |-> IF ret.op = "none" THEN None ELSE Some(ret.value),
                result |-> from_config_value(T, value)]
    /\ UNCHANGED mgr
    /\ UNCHANGED storeVars
    /\ UNCHANGED <<inspVars, apolloVars>>

NextConfig == FromJson \/ FromConfigValue

SpecConfig == InitConfig /\ [][NextConfig]_vars


\* ------------------------------------------------------------------------
\* Properties of the filter manager and of the routing predicate
\* ------------------------------------------------------------------------
\* The height a block selector stands for: Number(n) is n, Earliest is 0,
\* Latest, Pending, Finalized, Safe and an absent selector are u64::MAX
SelectorHeight(sel) ==
    CASE sel = None -> U64_MAX
      [] sel # None /\ sel[1] \in {Latest, Pending, Finalized, Safe} -> U64_MAX
      [] sel # None /\ sel[1] = Earliest -> 0
      [] OTHER -> sel[1][2]

IsRange(filter) == filter.block_option.type = "Range"

\* C6: with the selectors mapped as above, classify returns PureLegacy iff
\* to < cutoff, otherwise PureLocal iff from >= cutoff, otherwise Hybrid; so
\* Hybrid exactly when from < cutoff <= to, and [cutoff - 1, cutoff] is Hybrid.
C6_Classify ==
    (ret.op = "classify_filter" /\ IsRange(ret.filter)) =>
        LET from == SelectorHeight(ret.filter.block_option.from_block)
            to == SelectorHeight(ret.filter.block_option.to_block)
            cutoff == mgr.cutoff_block
        IN /\ ret.range = <<from, to>>
           /\ (ret.result = "PureLegacy") <=> (to < cutoff)
           /\ (ret.result = "PureLocal") <=> (to >= cutoff /\ from >= cutoff)
           /\ (ret.result = "Hybrid") <=> (from < cutoff /\ cutoff <= to)
           /\ ret.result \in {"PureLegacy", "PureLocal", "Hybrid"}

\* The range [cutoff - 1, cutoff] was classified, as Hybrid
C6_Witness ==
    /\ ret.op = "classify_filter"
    /\ mgr.cutoff_block >= 1
    /\ ret.filter.block_option =
          [type |-> "Range", from_block |-> Some(Number(mgr.cutoff_block - 1)),
           to_block |-> Some(Number(mgr.cutoff_block))]
    /\ ret.result = "Hybrid"

\* C7: split of a range filter, for a cutoff of at least 1 (so that
\* cutoff - 1 is a block height): the legacy copy ends at cutoff - 1 and keeps
\* the original from_block, the local copy starts at cutoff and keeps the
\* original to_block, and both keep the address and topic sets.  Instance:
\* [999000, 1001000] at cutoff 1000000 gives [999000, 999999] and
\* [1000000, 1001000].
C7_Split ==
    (ret.op = "split_filter" /\ IsRange(ret.filter) /\ mgr.cutoff_block >= 1) =>
        /\ ~ret.result.panic
        /\ ret.result.legacy_filter.block_option =
              [type |-> "Range", from_block |-> ret.filter.block_option.from_block,
               to_block |-> Some(Number(mgr.cutoff_block - 1))]
        /\ ret.result.local_filter.block_option =
              [type |-> "Range", from_block |-> Some(Number(mgr.cutoff_block)),
               to_block |-> ret.filter.block_option.to_block]
        /\ ret.result.legacy_filter.address = ret.filter.address
        /\ ret.result.legacy_filter.topics = ret.filter.topics
        /\ ret.result.local_filter.address = ret.filter.address
        /\ ret.result.local_filter.topics = ret.filter.topics
        /\ ( /\ mgr.cutoff_block = 1000000
             /\ ret.filter.block_option.from_block = Some(Number(999000))
             /\ ret.filter.block_option.to_block = Some(Number(1001000)) )
           => /\ ret.result.legacy_filter.block_option.from_block = Some(Number(999000))
              /\ ret.result.legacy_filter.block_option.to_block = Some(Number(999999))
              /\ ret.result.local_filter.block_option.from_block = Some(Number(1000000))
              /\ ret.result.local_filter.block_option.to_block = Some(Number(1001000))

\* The instance was split, with non-empty address and topic sets
C7_Witness ==
    /\ ret.op = "split_filter"
    /\ mgr.cutoff_block = 1000000
    /\ IsRange(ret.filter)
    /\ ret.filter.block_option.from_block = Some(Number(999000))
    /\ ret.filter.block_option.to_block = Some(Number(1001000))
    /\ ret.filter.address # {}
    /\ ret.filter.topics # <<>>
    /\ ~ret.result.panic
    /\ ret.result.legacy_filter.block_option.to_block = Some(Number(999999))

\* The canonical order on logs: lexicographic on (block_number,
\* transaction_index, log_index), an absent component before any present one
Rank(opt) == IF opt = None THEN -1 ELSE opt[1]

KeyLeq(a, b) ==
    \/ Rank(a.block_number) < Rank(b.block_number)
    \/ /\ Rank(a.block_number) = Rank(b.block_number)
       /\ \/ Rank(a.transaction_index) < Rank(b.transaction_index)
          \/ /\ Rank(a.transaction_index) = Rank(b.transaction_index)
             /\ Rank(a.log_index) <= Rank(b.log_index)

Occurrences(v, x) == Cardinality({i \in 1..Len(v) : v[i] = x})

\* C8: merge_logs(L1, L2) is a permutation of L1 ++ L2 (|L1| + |L2| entries,
\* none lost or duplicated) sorted ascending in the canonical order.
C8_MergeLogs ==
    ret.op = "merge_logs" =>
        /\ Len(ret.result) = Len(ret.legacy_logs) + Len(ret.local_logs)
        /\ \A x \in LogSet :
              Occurrences(ret.result, x) =
                  Occurrences(ret.legacy_logs, x) + Occurrences(ret.local_logs, x)
        /\ \A i \in 1..Len(ret.result) : ret.result[i] \in LogSet
        /\ \A i, j \in 1..Len(ret.result) :
              i < j => KeyLeq(ret.result[i], ret.result[j])

\* Two non-empty unsorted inputs that share a log were merged
C8_Witness ==
    /\ ret.op = "merge_logs"
    /\ Len(ret.legacy_logs) >= 2
    /\ Len(ret.local_logs) >= 2
    /\ ~KeyLeq(ret.legacy_logs[1], ret.legacy_logs[2])
    /\ ~KeyLeq(ret.local_logs[1], ret.local_logs[2])
    /\ \E i \in 1..Len(ret.local_logs) : ret.local_logs[i] = ret.legacy_logs[1]
    /\ ret.result # ret.legacy_logs \o ret.local_logs
    /\ Len(ret.result) = 4

\* C9: should_route_to_legacy is true iff a client is configured, the tag is
\* a concrete Number(n) and n < cutoff_block.  So it is false without a
\* client, false for every named tag and false for n = cutoff; with cutoff 0
\* no number routes legacy, with cutoff u64::MAX every number but u64::MAX.
C9_ShouldRouteToLegacy ==
    ret.op = "should_route_to_legacy" =>
        /\ ret.result \in BOOLEAN
        /\ ret.result <=>
              /\ ret.legacy_client # None
              /\ ret.number \in {Number(n) : n \in Heights}
              /\ ret.number[2] < ret.legacy_client[1].cutoff_block
        /\ ret.legacy_client = None => ~ret.result
        /\ ret.number \in {Latest, Earliest, Pending, Finalized, Safe} => ~ret.result
        /\ (ret.legacy_client # None /\ ret.number \in {Number(n) : n \in Heights}) =>
              LET cutoff == ret.legacy_client[1].cutoff_block
                  n == ret.number[2]
              IN /\ n = cutoff => ~ret.result
                 /\ cutoff = 0 => ~ret.result
                 /\ cutoff = U64_MAX => (ret.result <=> n # U64_MAX)

\* With cutoff u64::MAX the number u64::MAX - 1 was routed to legacy
C9_Witness ==
    /\ ret.op = "should_route_to_legacy"
    /\ ret.legacy_client = Some(LegacyRpcClient_from_config(U64_MAX))
    /\ ret.number = Number(U64_MAX - 1)
    /\ ret.result = TRUE

\* C14: classifying a filter that references only a block hash yields a
\* classification error: the result is none of PureLegacy, PureLocal, Hybrid.
C14_HashFilterIsError ==
    (ret.op = "classify_filter" /\ ~IsRange(ret.filter)) =>
        ret.result \notin {"PureLegacy", "PureLocal", "Hybrid"}

\* What does hold: a block-hash filter is parsed as [u64::MAX, u64::MAX] and
\* classified PureLocal, whatever the cutoff
C14_HashFilterIsPureLocal ==
    (ret.op = "classify_filter" /\ ~IsRange(ret.filter)) =>
        /\ ret.range = <<U64_MAX, U64_MAX>>
        /\ ret.result = "PureLocal"

KeyOf(x) == <<x.block_number, x.transaction_index, x.log_index>>
WithKey(v, k) == SelectSeq(v, LAMBDA x : KeyOf(x) = k)

\* C15: merge_logs is stable.  The logs of one key appear in the result in
\* their input order, those of legacy_logs before those of local_logs.  An
\* absent component sorts before a present one: a log without block number
\* before every log with one, and among logs that agree on the components
\* before it, a log without transaction index (log index) before every log
\* with one.
C15_MergeStable ==
    ret.op = "merge_logs" =>
        /\ \A x \in LogSet :
              WithKey(ret.result, KeyOf(x)) =
                  WithKey(ret.legacy_logs, KeyOf(x)) \o WithKey(ret.local_logs, KeyOf(x))
        /\ \A i, j \in 1..Len(ret.result) :
              LET a == ret.result[i]
                  b == ret.result[j]
              IN /\ (a.block_number = None /\ b.block_number # None) => i < j
                 /\ ( /\ a.block_number = b.block_number
                      /\ a.transaction_index = None
                      /\ b.transaction_index # None ) => i < j
                 /\ ( /\ a.block_number = b.block_number
                      /\ a.transaction_index = b.transaction_index
                      /\ a.log_index = None
                      /\ b.log_index # None ) => i < j

\* Two logs of one key and different payload were given in both orders, one
\* in each input, next to a log without block number given last
C15_Witness ==
    /\ ret.op = "merge_logs"
    /\ ret.legacy_logs = <<MkLog(Some(1), Some(0), Some(0), "q"),
                           MkLog(Some(1), Some(0), Some(0), "p")>>
    /\ ret.local_logs = <<MkLog(Some(1), Some(0), Some(0), "q"),
                          MkLog(None, Some(0), Some(0), "p")>>
    /\ ret.result = <<MkLog(None, Some(0), Some(0), "p"),
                      MkLog(Some(1), Some(0), Some(0), "q"),
                      MkLog(Some(1), Some(0), Some(0), "p"),
                      MkLog(Some(1), Some(0), Some(0), "q")>>

\* C19: should_route_block_id_to_legacy is true iff a client is configured,
\* the block-id is a Number block-id holding a concrete number n, and
\* n < cutoff_block.  It is false for every hash block-id, for an absent
\* block-id, for the tag block-ids and without a client.
C19_ShouldRouteBlockIdToLegacy ==
    ret.op = "should_route_block_id_to_legacy" =>
        /\ ret.result \in BOOLEAN
        /\ ret.result <=>
              /\ ret.legacy_client # None
              /\ ret.block_id \in {Some(<<"Number", Number(n)>>) : n \in Heights}
              /\ ret.block_id[1][2][2] < ret.legacy_client[1].cutoff_block
        /\ ret.legacy_client = None => ~ret.result
        /\ ret.block_id = None => ~ret.result
        /\ (ret.block_id # None /\ ret.block_id[1][1] = "Hash") => ~ret.result
        /\ ret.block_id \in {Some(<<"Number", tag>>) :
                                tag \in {Latest, Earliest, Pending, Finalized, Safe}}
              => ~ret.result

\* With cutoff 1000000 the block-id Number(999999) was routed to legacy
C19_Witness ==
    /\ ret.op = "should_route_block_id_to_legacy"
    /\ ret.legacy_client = Some(LegacyRpcClient_from_config(1000000))
    /\ ret.block_id = Some(<<"Number", Number(999999)>>)
    /\ ret.result = TRUE

\* ------------------------------------------------------------------------
\* Properties of the filter store
\* ------------------------------------------------------------------------
\* The metadata the register call that returned id passed, if that call is in S
Lookup(S, id) ==
    IF \E c \in S : c.id = id
    THEN Some((CHOOSE c \in S : c.id = id).args)
    ELSE None

InFlight == {t \in Threads : thr[t].pc = "insert"}

\* C16: the counter starts at 1 and the k-th register call on a manager is
\* given id k, so two register calls never get the same id, even with
\* identical arguments.
C16_FilterIds ==
    /\ mgr.next_id = g_reg.calls + 1
    /\ \A t \in InFlight : thr[t].id = thr[t].k
    /\ ret.op = "register_filter" => ret.id = ret.k
    /\ \A c \in g_reg.live : c.id = c.k
    /\ \A c1, c2 \in g_reg.live : c1.k # c2.k => c1.id # c2.id

\* The third register call returned 3, after two calls with identical
\* arguments that returned 1 and 2
C16_Witness ==
    /\ ret.op = "register_filter"
    /\ ret.k = 3
    /\ ret.id = 3
    /\ \E c1, c2 \in g_reg.live :
          c1.id = 1 /\ c2.id = 2 /\ c1.args = c2.args

\* C17: with register, get and remove of several threads interleaved: the
\* ids of register calls (returned or about to be) are pairwise distinct; no
\* insert is lost, each id registered and not removed maps to the metadata
\* its register call passed; the ids in the map are exactly the live ones.
C17_ConcurrentStore ==
    /\ \A t1, t2 \in InFlight : t1 # t2 => thr[t1].id # thr[t2].id
    /\ \A t \in InFlight : thr[t].id \notin g_reg.issued
    /\ \A c1, c2 \in g_reg.live : c1 # c2 => c1.id # c2.id
    /\ \A c \in g_reg.live : get_filter(mgr, c.id) = Some(c.args)
    /\ DOMAIN mgr.filters = {c.id : c \in g_reg.live}

\* Register calls overlapped and returned out of order, after the first id
\* was removed: the third call has returned, the second has not
C17_Witness ==
    /\ ret.op = "register_filter"
    /\ ret.id = 3
    /\ \E t \in InFlight : thr[t].id = 2
    /\ 1 \in g_reg.issued
    /\ DOMAIN mgr.filters = {3}

\* C18: filter lifecycle.  get(id) returns the metadata passed to the
\* register call that returned id while id is registered, and absent
\* otherwise (never issued, or removed); remove(id) returns the same and
\* leaves id absent; register and remove leave every other id as it was.
C18_Lifecycle ==
    /\ ret.op = "get_filter" =>
          /\ ret.result = Lookup(g_reg.live, ret.id)
          /\ ret.id \notin g_reg.issued => ret.result = None
          /\ (ret.id \in g_reg.issued /\ Lookup(g_reg.live, ret.id) = None) =>
                ret.result = None
    /\ ret.op = "remove_filter" =>
          /\ ret.result = Lookup(g_reg.before, ret.id)
          /\ ret.id \notin g_reg.issued => ret.result = None
          /\ get_filter(mgr, ret.id) = None
          /\ \A j \in StoreIds \ {ret.id} :
                get_filter(mgr, j) = Lookup(g_reg.before, j)
    /\ ret.op = "register_filter" =>
          /\ get_filter(mgr, ret.id) = Some(ret.args)
          /\ \A j \in StoreIds \ {ret.id} :
                get_filter(mgr, j) = Lookup(g_reg.before, j)

\* A second remove of an id returned absent while another id stayed registered
C18_Witness ==
    /\ ret.op = "remove_filter"
    /\ ret.id \in g_reg.issued
    /\ ret.result = None
    /\ Lookup(g_reg.before, ret.id) = None
    /\ \E j \in StoreIds : j # ret.id /\ get_filter(mgr, j) # None

\* A filter whose two bounds are block numbers
IsNumericRange(filter) ==
    /\ IsRange(filter)
    /\ filter.block_option.from_block \in {Some(Number(n)) : n \in Heights}
    /\ filter.block_option.to_block \in {Some(Number(n)) : n \in Heights}

\* C24: for every cutoff in the u64 range, 0 and u64::MAX included, and every
\* numeric range, classify returns a classification and split returns its
\* two filters, without panic and without wrap-around: the legacy bound is a
\* block number n with n + 1 = cutoff.
C24_Infallible ==
    /\ (ret.op = "classify_filter" /\ IsNumericRange(ret.filter)) =>
          ret.result \in {"PureLegacy", "PureLocal", "Hybrid"}
    /\ (ret.op = "split_filter" /\ IsNumericRange(ret.filter)) =>
          /\ ~ret.result.panic
          /\ \E n \in Heights :
                /\ n < mgr.cutoff_block
                /\ n + 1 = mgr.cutoff_block
                /\ ret.result.legacy_filter.block_option.to_block = Some(Number(n))

\* The part of C24 that holds: classify is total, and split is for cutoff >= 1
C24_InfallibleAboveZero ==
    /\ (ret.op = "classify_filter" /\ IsNumericRange(ret.filter)) =>
          ret.result \in {"PureLegacy", "PureLocal", "Hybrid"}
    /\ (ret.op = "split_filter" /\ IsNumericRange(ret.filter)
            /\ mgr.cutoff_block >= 1) =>
          /\ ~ret.result.panic
          /\ ret.result.legacy_filter.block_option.to_block =
                Some(Number(mgr.cutoff_block - 1))

\* The value is a LegacyRpcComponents, not an error
IsComponents(r) == DOMAIN r = {"client", "filter_manager"}

\* C25: init_legacy_rpc_components never returns an error.  Without a config,
\* or with a config whose endpoint gives no client, it returns the empty
\* components (client and filter_manager absent, is_enabled() false); with a
\* valid config it returns a client and a filter manager that both carry the
\* cutoff_block of the config (is_enabled() true).
C25_InitLegacyRpcComponents ==
    ret.op = "init_legacy_rpc_components" =>
        /\ IsComponents(ret.result)
        /\ (ret.config = None \/ ~from_config(ret.config[1]).ok) =>
              /\ ret.result.client = None
              /\ ret.result.filter_manager = None
              /\ ~is_enabled(ret.result)
        /\ (ret.config # None /\ from_config(ret.config[1]).ok) =>
              /\ ret.result.client # None
              /\ ret.result.filter_manager # None
              /\ ret.result.client[1].cutoff_block = ret.config[1].cutoff_block
              /\ ret.result.filter_manager[1].cutoff_block = ret.config[1].cutoff_block
              /\ ret.result.filter_manager[1].filters = <<>>
              /\ is_enabled(ret.result)
        /\ ret.config # None =>
              (from_config(ret.config[1]).ok <=>
                  /\ ret.config[1].endpoint.scheme \in {Some("http"), Some("https")}
                  /\ ret.config[1].endpoint.rest # "")

\* Components with cutoff 1000000 were built from an https endpoint
C25_Witness ==
    /\ ret.op = "init_legacy_rpc_components"
    /\ ret.config # None
    /\ ret.config[1].cutoff_block = 1000000
    /\ ret.config[1].endpoint.scheme = Some("https")
    /\ is_enabled(ret.result)
    /\ ret.result.filter_manager[1].cutoff_block = 1000000

\* C26: a malformed endpoint URL is an init error that reaches the caller of
\* the initialisation: with such a config the initialisation does not return
\* components (a node running with legacy support off).
C26_MalformedUrlIsPropagated ==
    (ret.op = "init_legacy_rpc_components" /\ ret.config # None
        /\ ~from_config(ret.config[1]).ok) =>
            ~IsComponents(ret.result)

\* What does hold: the error is absorbed, the result is the empty components
C26_MalformedUrlIsAbsorbed ==
    (ret.op = "init_legacy_rpc_components" /\ ret.config # None
        /\ ~from_config(ret.config[1]).ok) =>
            ret.result = LegacyRpcComponents_empty

\* ------------------------------------------------------------------------
\* Remote configuration client
\* ------------------------------------------------------------------------
\* The client in INSTANCE
Singleton == instances[OnceCell_get(cell)[1]]

\* Task i polls one namespace in this step
PollStep(i) ==
    /\ i <= Len(tasks)
    /\ tasks[i].todo # <<>>
    /\ tasks'[i].todo = Tail(tasks[i].todo)

\* start_listening loads the initial config and spawns a task in this step
LoadStep == Len(tasks') = Len(tasks) + 1

\* The parsed pairs of a namespace's document are readable after a refresh
\* and no pair sits under its bare key
ReadableAfter(client, namespace, doc) ==
    LET parsed == serde_yaml_from_str(doc).value
    IN \A k \in DOMAIN parsed :
        /\ (namespace \o ":" \o k) \in DOMAIN client.cache
        /\ get_cached_config(client, namespace, k) = Some(parsed[k])
        /\ k \notin DOMAIN client.cache

\* C27: after a refresh (the initial load or a change event) has parsed the
\* document of a namespace that has key k with value v, the cache holds v in
\* the entry "{namespace}:{k}", get(namespace, k) returns v, and nothing is
\* stored under the bare key k.
C27_CacheWriteReadAgreement ==
    [][ /\ \A i \in 1..Len(tasks) :
            LET namespace == Head(tasks[i].todo)
                c == tasks[i].client
            IN (/\ PollStep(i)
                /\ remote[namespace] # None
                /\ serde_yaml_from_str(remote[namespace][1]).ok
                /\ instances'[c].cache # instances[c].cache)
               => ReadableAfter(instances'[c], namespace, remote[namespace][1])
        /\ LoadStep =>
            \A n \in 1..Len(Singleton.order) :
                LET namespace == Singleton.order[n]
                IN (remote[namespace] # None
                      /\ serde_yaml_from_str(remote[namespace][1]).ok)
                   => ReadableAfter(Singleton', namespace, remote[namespace][1])
      ]_vars

\* What does hold: the pairs go into the cache under their bare keys, so a
\* read through get_cached_config finds nothing, whatever was loaded
ConfigKeys == {"timeout", "limit"}

C27_BareKeysOnly ==
    cell.state = "set" =>
        /\ DOMAIN Singleton.cache \subseteq ConfigKeys
        /\ \A namespace \in RemoteNames \cup DOMAIN Singleton.namespace_map :
           \A k \in ConfigKeys :
              get_cached_config(Singleton, namespace, k) = None

\* Two namespaces with the same key: the later write replaced the earlier
C27_Collision ==
    ~ (/\ cell.state = "set"
       /\ \A namespace \in RemoteNames : remote[namespace] # None
       /\ serde_yaml_from_str(remote[namespace_str(NsJsonrpcA)][1]).ok
       /\ Len(Singleton.order) = 2
       /\ Singleton.listener_state.task # None
       /\ DOMAIN Singleton.cache = {"timeout", "limit"})

DuplicatePrefix(config) ==
    /\ config.namespaces # None
    /\ \E i, j \in 1..Len(config.namespaces[1]) :
        /\ i < j
        /\ split_first(config.namespaces[1][i]) = split_first(config.namespaces[1][j])

IsInvalidConfig(config) ==
    \/ config.app_id = ""
    \/ config.meta_server = <<>>
    \/ config.cluster_name = ""
    \/ DuplicatePrefix(config)

\* C29: an initialisation whose config has an empty app_id, no meta_server,
\* an empty cluster_name or two namespaces of the same prefix ends with a
\* ClientInit error, creates no client and leaves INSTANCE empty, so that a
\* later call runs its own initialisation; the client in INSTANCE was always
\* created from a valid config.
C29_InvalidConfigFails ==
    /\ [][\A t \in Threads :
            (/\ callers[t].pc = "new_instance"
             /\ callers'[t].pc # "new_instance"
             /\ IsInvalidConfig(callers[t].config[1]))
            => /\ ret'.op = "get_instance"
               /\ ~ret'.ok
               /\ ret'.error.kind = "ClientInit"
               /\ instances' = instances
               /\ cell' = OnceCell_new
               /\ callers'[t].pc = "idle"]_vars
    /\ [](cell.state = "set" =>
            /\ ~IsInvalidConfig(Singleton.config)
            /\ \A i \in 1..Len(Singleton.config.namespaces[1]) :
                LET namespace == Singleton.config.namespaces[1][i]
                IN /\ split_first(namespace) \in DOMAIN Singleton.namespace_map
                   /\ Singleton.namespace_map[split_first(namespace)]
                        = namespace_str(namespace))

\* The last error returned was for a duplicate prefix, and a later
\* initialisation has set INSTANCE
C29_Witness ==
    /\ ret.op = "get_instance"
    /\ ~ret.ok
    /\ ret.error.message = "duplicate apollo namespace"
    /\ cell.state = "set"
    /\ Len(instances) = 1

\* load_config when the documents that do not parse are left out
RECURSIVE parsing_only(_, _)
parsing_only(namespaces, documents) ==
    IF namespaces = <<>> THEN <<>>
    ELSE LET config == documents[Head(namespaces)]
             rest == parsing_only(Tail(namespaces), documents)
         IN IF config # None /\ ~serde_yaml_from_str(config[1]).ok
            THEN rest ELSE <<Head(namespaces)>> \o rest

\* C30: a poll that is given a document that does not parse changes nothing
\* in the cache and does not end the task, which goes on to the next namespace
\* of the tick (and to the next tick after the last one); an initial load
\* gives the cache it would give without the documents that do not parse.
C30_ParseFailureKeepsCache ==
    [][ /\ \A i \in 1..Len(tasks) :
            LET namespace == Head(tasks[i].todo)
                c == tasks[i].client
            IN (/\ PollStep(i)
                /\ remote[namespace] # None
                /\ ~serde_yaml_from_str(remote[namespace][1]).ok)
               => /\ instances'[c].cache = instances[c].cache
                  /\ tasks'[i].state = tasks[i].state
                  /\ tasks'[i].todo = Tail(tasks[i].todo)
                  /\ tasks'[i].state = "running" =>
                        (tasks'[i].todo # <<>> \/ Singleton.order # <<>>)
        /\ LoadStep =>
            /\ Singleton'.cache =
                  load_config(Singleton.cache,
                              parsing_only(Singleton.order, remote), remote)
            /\ Singleton'.listener_state.task # None
      ]_vars

\* The last poll of a running task logged a parse error, the cache still has
\* its entries and the task has the next namespace of the tick before it
C30_Witness ==
    /\ g_apollo.parse_error # None
    /\ tasks[g_apollo.parse_error[1]].state = "running"
    /\ tasks[g_apollo.parse_error[1]].todo # <<>>
    /\ DOMAIN instances[tasks[g_apollo.parse_error[1]].client].cache # {}

\* The tasks that were spawned and neither ended nor were aborted
RunningTasks == {i \in 1..Len(tasks) : tasks[i].state = "running"}

\* Caller t returns from start_listening (and from get_instance) in this step
StartListeningStep(t) ==
    /\ callers[t].pc = "start_listening"
    /\ callers'[t].pc = "idle"

C31_FailedStart ==
    /\ ret.op = "get_instance"
    /\ ~ret.ok
    /\ ret.error.message = "Failed to listen to namespace"
    /\ cell.state = "set"
    /\ Singleton.listener_state = ListenerState(None, None)
    /\ tasks = <<>>

\* stop_listening has sent the shutdown signal to task i or aborted it
StopRequested(i) ==
    /\ i <= Len(tasks)
    /\ tasks[i].shutdown \/ tasks[i].state = "aborting"

Ended(i) == i <= Len(tasks) /\ tasks[i].state = "ended"

RECURSIVE InSum(_)
InSum(value) ==
    \/ value[1] \in {"PosInt", "NegInt", "Bool", "String"}
    \/ /\ value[1] = "Array"
       /\ \A p \in 1..Len(value[2]) : InSum(value[2][p])

KindOfJson(value) ==
    IF value[1] = "PosInt" THEN "unsigned"
    ELSE IF value[1] = "NegInt" THEN "signed"
    ELSE IF value[1] = "Bool" THEN "boolean"
    ELSE IF value[1] = "String" THEN "string"
    ELSE IF value[1] = "Array" THEN "array"
    ELSE "other"

KindOfType(T) ==
    IF T[1] \in {"u64", "u32"} THEN "unsigned"
    ELSE IF T[1] \in {"i64", "i32"} THEN "signed"
    ELSE IF T[1] = "bool" THEN "boolean"
    ELSE IF T[1] = "String" THEN "string"
    ELSE IF T[1] = "Vec" THEN "array"
    ELSE "float"

\* The natural type of a scalar JSON value, and of an array whose items are
\* of type T
NaturalScalar(value) ==
    IF value[1] = "PosInt" THEN <<"u64">>
    ELSE IF value[1] = "NegInt" THEN <<"i64">>
    ELSE IF value[1] = "Bool" THEN <<"bool">>
    ELSE <<"String">>

IsNatural(T, value) ==
    IF value[1] = "Array"
    THEN /\ T[1] = "Vec"
         /\ \A p \in 1..Len(value[2]) :
               /\ value[2][p][1] # "Array"
               /\ T[2] = NaturalScalar(value[2][p])
    ELSE T = NaturalScalar(value)

\* The value itself, as the accessor's result type holds it
Extracted(value) ==
    IF value[1] = "Array" THEN [p \in 1..Len(value[2]) |-> value[2][p][2]]
    ELSE value[2]

\* C34: for every JSON value of a kind in the ConfigValue sum (unsigned or
\* signed integer, boolean, string, array of such values) from_json succeeds,
\* the natural typed accessor applied to its result yields the value, and an
\* accessor of another kind yields None.
C34_RoundTrip ==
    /\ (ret.op = "from_json" /\ InSum(ret.value)) => ret.result # None
    /\ (ret.op = "from_config_value" /\ ret.json # None /\ InSum(ret.json[1])) =>
          /\ IsNatural(ret.type, ret.json[1]) => ret.result = Some(Extracted(ret.json[1]))
          /\ KindOfType(ret.type) # KindOfJson(ret.json[1]) => ret.result = None

\* What does hold: the round trip of the scalar kinds, and no JSON array ever
\* becomes a config value
C34_ScalarRoundTrip ==
    /\ (ret.op = "from_json" /\ InSum(ret.value)) =>
          (ret.result = None <=> ret.value[1] = "Array")
    /\ (ret.op = "from_config_value" /\ ret.json # None /\ InSum(ret.json[1])) =>
          /\ IsNatural(ret.type, ret.json[1]) => ret.result = Some(Extracted(ret.json[1]))
          /\ KindOfType(ret.type) # KindOfJson(ret.json[1]) => ret.result = None

\* Vec<T> reads a ConfigValue::Array whose items all read as T
C34_VecOfArray ==
    (ret.op = "from_config_value" /\ ret.type[1] = "Vec" /\ ret.value[1] = "Array") =>
        IF \A p \in 1..Len(ret.value[2]) :
              from_config_value(ret.type[2], ret.value[2][p]) # None
        THEN /\ ret.result # None
             /\ Len(ret.result[1]) = Len(ret.value[2])
        ELSE ret.result = None

\* ------------------------------------------------------------------------
\* The typed read helper
\* ------------------------------------------------------------------------
\* The conversion the helper applies to a cached JSON value: no trait
\* FromJsonValue exists in types.rs; the conversions that do exist are
\* ConfigValue::from_json followed by T::from_config_value
from_json_value(T, v) ==
    LET value == from_json(v)
    IN IF value = None THEN None ELSE from_config_value(T, value[1])

\* apollo_cached_config!(namespace, key, default) read as type T: the client
\* in INSTANCE if there is one, get_cached_config on it, the conversion, and
\* the default when any of them gives nothing.  The cache holds JSON numbers,
\* kept in the model as their values.
apollo_cached_config(T, namespace, key, default) ==
    LET apollo == OnceCell_get(cell)
    IN IF apollo # None
       THEN LET client == instances[apollo[1]]
                v == get_cached_config(client, namespace, key)
                converted == IF v = None THEN None
                             ELSE from_json_value(T, JsonPosInt(v[1]))
            IN IF converted = None THEN default ELSE converted[1]
       ELSE default

\* The value the cache holds for a key of a namespace: the entry
\* "{namespace}:{key}" that a read looks up or, in a client with a single
\* namespace, the entry that the refresh of that namespace wrote for the key
Cached(client, namespace, key) ==
    IF (namespace \o ":" \o key) \in DOMAIN client.cache
    THEN Some(client.cache[namespace \o ":" \o key])
    ELSE IF key \in DOMAIN client.cache THEN Some(client.cache[key])
    ELSE None

\* The types a consumer reads a key as, each with a literal default that no
\* published document contains
ReadAs == { [type |-> <<"u64">>, default |-> 0],
            [type |-> <<"u32">>, default |-> 0],
            [type |-> <<"bool">>, default |-> FALSE] }

\* C33: apollo_cached_config!(namespace, key, default) returns the default
\* when the client is not initialised, when the key is missing from the cache
\* and when the cached value does not convert to the requested type;
\* otherwise it returns the cached value.
C33_TypedReadWithDefault ==
    \A key \in ConfigKeys : \A as \in ReadAs :
        IF cell.state # "set"
        THEN \A namespace \in RemoteNames :
                apollo_cached_config(as.type, namespace, key, as.default) = as.default
        ELSE Cardinality(DOMAIN Singleton.namespace_map) = 1 =>
             \A namespace \in DOMAIN Singleton.namespace_map :
                LET held == Cached(Singleton, namespace, key)
                    converted == IF held = None THEN None
                                 ELSE from_json_value(as.type, JsonPosInt(held[1]))
                IN apollo_cached_config(as.type, namespace, key, as.default)
                     = IF converted = None THEN as.default ELSE converted[1]

\* What does hold: whatever was loaded, the helper returns the default, for
\* the prefix of a namespace as well as for its full name
C33_AlwaysDefault ==
    \A key \in ConfigKeys : \A as \in ReadAs :
    \A namespace \in RemoteNames \cup
                     (IF cell.state = "set" THEN DOMAIN Singleton.namespace_map ELSE {}) :
        apollo_cached_config(as.type, namespace, key, as.default) = as.default

\* ------------------------------------------------------------------------
\* Positions on the call stack
\* ------------------------------------------------------------------------
\* The entry at height i of call_stack carries the position of the frame's
\* own record in inner_txs
PositionIsOwnRecord(self, i) ==
    LET entry == self.call_stack[i]
        position == entry[2]
    IN /\ position < Len(Recs(self))
       /\ Recs(self)[position + 1].depth = entry[1].depth
       /\ Recs(self)[position + 1].internal_index = entry[1].internal_index
       /\ Recs(self)[position + 1].call_type = entry[1].call_type
       /\ Recs(self)[position + 1].trace_address = entry[1].trace_address

PositionsIncrease(self) ==
    \A i, j \in 1..Len(self.call_stack) :
        i < j => self.call_stack[i][2] < self.call_stack[j][2]

CallStackPositions(self) ==
    /\ \A i \in 1..Len(self.call_stack) : PositionIsOwnRecord(self, i)
    /\ PositionsIncrease(self)

\* C35: for every entry (record, position) on call_stack, position is below
\* the length of inner_txs and inner_txs[position] has the depth,
\* internal_index, call_type and trace_address of the stacked record; the
\* positions on the stack increase strictly from bottom to top.
C35_CallStackPositions ==
    CallStackPositions(evm) /\ CallStackPositions(revm)

\* What does hold: the statement for crates/ethereum/evm, and in crates/revm
\* a position that is the record's own only for the first record
C35_CallStackPositions_evm ==
    /\ CallStackPositions(evm)
    /\ \A i \in 1..Len(revm.call_stack) :
          /\ revm.call_stack[i][2] = new_index_revm([p \in 1..g_open[i].pos |-> p])
          /\ revm.call_stack[i][2] = evm.call_stack[i][2] <=> g_open[i].pos = 0

\* ------------------------------------------------------------------------
\* The two implementations side by side
\* ------------------------------------------------------------------------
\* C36: driven by the same hooks from the same initial state, the inspectors
\* of crates/ethereum/evm and crates/revm return the same records from
\* get_inner_txs(), field by field, the is_error flags included.
C36_SameRecords == get_inner_txs(evm) = get_inner_txs(revm)

\* What does hold: the same records apart from is_error, the same depth
\* counter and the same stacked records; and every record that
\* crates/ethereum/evm marks as failed is marked by crates/revm too
WithoutIsError(inner_txs) ==
    [i \in 1..Len(inner_txs) |-> [inner_txs[i] EXCEPT !.is_error = FALSE]]

C36_SameRecordsButIsError ==
    /\ WithoutIsError(get_inner_txs(evm)) = WithoutIsError(get_inner_txs(revm))
    /\ evm.current_depth = revm.current_depth
    /\ evm.inner_tx_meta.index_map = revm.inner_tx_meta.index_map
    /\ Len(evm.call_stack) = Len(revm.call_stack)
    /\ \A i \in 1..Len(evm.call_stack) : evm.call_stack[i][1] = revm.call_stack[i][1]
    /\ \A i \in 1..Len(get_inner_txs(evm)) :
          get_inner_txs(evm)[i].is_error => get_inner_txs(revm)[i].is_error

\* ------------------------------------------------------------------------
\* Self-destructs and the numbering of frames
\* ------------------------------------------------------------------------
\* The depth counter when the record at position p is made: one per open
\* frame, the frame itself included, on top of what initialize_interp set
DepthAt(p) ==
    (IF g_run.inited THEN 1 ELSE 0) + Len(g_info[p + 1].anc)
        + (IF IsFrame(p) THEN 1 ELSE 0)

\* The inspector after the first n records of the same hooks with the
\* self-destructs left out: before_op for each frame, at the frame's depth
RECURSIVE WithoutSelfdestructs(_, _)
WithoutSelfdestructs(impl, n) ==
    IF n = 0 THEN InnerTxInspector_new
    ELSE LET before == WithoutSelfdestructs(impl, n - 1)
         IN IF ~IsFrame(n - 1) THEN before
            ELSE before_op([before EXCEPT !.current_depth = DepthAt(n - 1)],
                           impl, g_info[n].kind, "a1", None, None, <<>>, 0, 0).self

\* The record of the frame at position p in that run
FrameWithoutSelfdestructs(impl, p) ==
    LET inner_txs == get_inner_txs(WithoutSelfdestructs(impl, p + 1))
    IN inner_txs[Len(inner_txs)]

SameNumbering(a, b) ==
    /\ a.depth = b.depth
    /\ a.internal_index = b.internal_index
    /\ a.trace_address = b.trace_address

\* C37: in a well-nested hook sequence every call/create record has the
\* depth, internal_index and trace_address it has in the same sequence with
\* the self-destructs removed.
C37_SelfdestructKeepsNumbering ==
    \A p \in Positions :
        IsFrame(p) =>
            /\ SameNumbering(Recs(evm)[p + 1], FrameWithoutSelfdestructs("evm", p))
            /\ SameNumbering(Recs(revm)[p + 1], FrameWithoutSelfdestructs("revm", p))

\* What does hold: the depth of every frame is the one it has without the
\* self-destructs, and the whole numbering is when no self-destruct precedes
C37_DepthOnly ==
    \A p \in Positions :
        IsFrame(p) =>
            /\ Recs(evm)[p + 1].depth = FrameWithoutSelfdestructs("evm", p).depth
            /\ Recs(revm)[p + 1].depth = FrameWithoutSelfdestructs("revm", p).depth
            /\ (\A q \in 0..p : IsFrame(q)) =>
                  /\ SameNumbering(Recs(evm)[p + 1], FrameWithoutSelfdestructs("evm", p))
                  /\ SameNumbering(Recs(revm)[p + 1], FrameWithoutSelfdestructs("revm", p))

\* ------------------------------------------------------------------------
\* Split and classification at the cutoff
\* ------------------------------------------------------------------------
\* C38: for every filter classified Hybrid (so cutoff >= 1 and
\* from < cutoff <= to) split yields a legacy part that classifies PureLegacy
\* and a local part that classifies PureLocal; both are non-empty ranges,
\* they are disjoint and together they are exactly [from, to].
C38_SplitPartitionsHybrid ==
    (ret.op = "split_filter" /\ classify_filter(mgr, ret.filter) = "Hybrid") =>
        LET range == parse_block_range(mgr, ret.filter)
            cutoff == mgr.cutoff_block
        IN /\ cutoff >= 1
           /\ range[1] < cutoff /\ cutoff <= range[2]
           /\ ~ret.result.panic
           /\ LET legacy == parse_block_range(mgr, ret.result.legacy_filter)
                  local == parse_block_range(mgr, ret.result.local_filter)
              IN /\ classify_filter(mgr, ret.result.legacy_filter) = "PureLegacy"
                 /\ classify_filter(mgr, ret.result.local_filter) = "PureLocal"
                 /\ legacy[1] <= legacy[2]
                 /\ local[1] <= local[2]
                 /\ legacy[2] < local[1]
                 /\ legacy[1] = range[1]
                 /\ local[2] = range[2]
                 /\ \A n \in Heights :
                       (range[1] <= n /\ n <= range[2]) <=>
                          \/ legacy[1] <= n /\ n <= legacy[2]
                          \/ local[1] <= n /\ n <= local[2]

\* The open-ended filter from Earliest was split at cutoff 1 into [0, 0] and
\* [1, u64::MAX]
C38_Witness ==
    /\ ret.op = "split_filter"
    /\ mgr.cutoff_block = 1
    /\ IsRange(ret.filter)
    /\ ret.filter.block_option.from_block = Some(Earliest)
    /\ ret.filter.block_option.to_block = None
    /\ classify_filter(mgr, ret.filter) = "Hybrid"
    /\ ~ret.result.panic
    /\ parse_block_range(mgr, ret.result.legacy_filter) = <<0, 0>>
    /\ parse_block_range(mgr, ret.result.local_filter) = <<1, U64_MAX>>

\* The single-block filter [n, n]
SingleBlock(filter) ==
    /\ IsNumericRange(filter)
    /\ filter.block_option.from_block = filter.block_option.to_block

\* C39: for every cutoff and every block number n, the filter [n, n] is
\* classified PureLegacy exactly when should_route_to_legacy(client, Number(n))
\* is true and PureLocal exactly when it is false, never Hybrid; and the trait
\* method LegacyRpc::should_route_to_legacy(n) gives the answer of the free
\* function.
C39_ClassifyAgreesWithRouting ==
    /\ (ret.op = "classify_filter" /\ SingleBlock(ret.filter)) =>
          LET client == Some(LegacyRpcClient_from_config(mgr.cutoff_block))
              number == ret.filter.block_option.from_block[1]
          IN /\ ret.result = "PureLegacy" <=> should_route_to_legacy(client, number)
             /\ ret.result = "PureLocal" <=> ~should_route_to_legacy(client, number)
             /\ ret.result # "Hybrid"
             /\ (ret.result = "PureLegacy")
                   = LegacyRpc_should_route_to_legacy(client, number[2])
    /\ ret.op = "LegacyRpc::should_route_to_legacy" =>
          /\ ret.result = should_route_to_legacy(ret.legacy_client, Number(ret.block_number))
          /\ ret.legacy_client # None =>
                LET manager == CrossBoundaryFilterManager_new(ret.legacy_client[1].cutoff_block)
                    filter == [block_option |->
                                  [type |-> "Range",
                                   from_block |-> Some(Number(ret.block_number)),
                                   to_block |-> Some(Number(ret.block_number))],
                               address |-> {}, topics |-> <<>>]
                IN classify_filter(manager, filter) =
                      (IF ret.result THEN "PureLegacy" ELSE "PureLocal")
    /\ (ret.op = "should_route_to_legacy" /\ ret.number[1] = "Number") =>
          ret.result = LegacyRpc_should_route_to_legacy(ret.legacy_client, ret.number[2])

\* The block at the cutoff itself was classified, as PureLocal
C39_Witness ==
    /\ ret.op = "classify_filter"
    /\ SingleBlock(ret.filter)
    /\ mgr.cutoff_block >= 1
    /\ ret.filter.block_option.from_block = Some(Number(mgr.cutoff_block))
    /\ ret.result = "PureLocal"
    /\ ~LegacyRpc_should_route_to_legacy(Some(LegacyRpcClient_from_config(mgr.cutoff_block)),
                                         mgr.cutoff_block)

\* ------------------------------------------------------------------------
\* Filter ids over time
\* ------------------------------------------------------------------------
\* register_filter returns in this step
RegisterReturns ==
    \E t \in Threads : thr[t].pc = "insert" /\ thr'[t].pc = "idle"

\* C40: an id returned by register is never returned by a later register,
\* also after its filter was removed; next_id never decreases and is greater
\* than every id ever issued.
C40_IdsNeverReused ==
    /\ [](/\ \A id \in g_reg.issued : id < mgr.next_id
          /\ \A t \in InFlight : thr[t].id < mgr.next_id /\ thr[t].id \notin g_reg.issued)
    /\ [][ /\ mgr'.next_id >= mgr.next_id
           /\ RegisterReturns =>
                 /\ ret'.op = "register_filter"
                 /\ ret'.id \notin g_reg.issued
                 /\ ret'.id \notin DOMAIN mgr.filters
         ]_vars

\* A register call returned 2 after the filter with id 1 had been removed
C40_Witness ==
    /\ ret.op = "register_filter"
    /\ ret.id = 2
    /\ 1 \in g_reg.issued
    /\ DOMAIN mgr.filters = {2}
    /\ InFlight = {}
    /\ mgr.next_id = 3

====
